---------------------------- MODULE Spec2Model ----------------------------
(***************************************************************************)
(* redash-loader: fetch (src/fetch.py) writes the queries, visualizations  *)
(* and dashboards of a Redash server to YAML documents; push (src/push.py) *)
(* uploads those documents to a Redash server.                             *)
(*                                                                         *)
(* Python dicts are functions with a set of string keys, so that "key in   *)
(* d", d[key] = v and del d[key] are modelled on the domain.  Strings that *)
(* the code takes apart with a regular expression (the link templates) are *)
(* sequences of characters; the literal "/dashboards/" is one element.     *)
(***************************************************************************)
EXTENDS Integers, Sequences, FiniteSets, TLC

----------------------------------------------------------------------------
(* Dict helpers *)

HasKey(d, k) == k \in DOMAIN d

Put(d, k, v) == [x \in DOMAIN d \cup {k} |-> IF x = k THEN v ELSE d[x]]

Del(d, k) == [x \in DOMAIN d \ {k} |-> d[x]]

----------------------------------------------------------------------------
(* Link templates: characters and the two regular expressions *)

\* the literal prefix "/dashboards/" of both regular expressions
DASHBOARDS == "/dashboards/"

DigitChars == <<"0", "1", "2", "3", "4", "5", "6", "7", "8", "9">>

\* [0-9]
IsDigit(c) == \E i \in 1..Len(DigitChars) : DigitChars[i] = c

\* [a-z0-9-] : "a" and "b" are the lowercase letters of the model
IsSlugChar(c) == IsDigit(c) \/ c \in {"a", "b", "-"}

\* "X" is any other character than a digit, a lowercase letter, "-", "?" and a
\* line break; with "?" these are the characters of the model's templates.
TailChars == {"3", "-", "a", "?", "X"}

\* longest run of characters satisfying the class, from position i (greedy +)
RECURSIVE DigitRun(_, _)
DigitRun(s, i) == IF i <= Len(s) /\ IsDigit(s[i]) THEN 1 + DigitRun(s, i + 1) ELSE 0

RECURSIVE SlugRun(_, _)
SlugRun(s, i) == IF i <= Len(s) /\ IsSlugChar(s[i]) THEN 1 + SlugRun(s, i + 1) ELSE 0

\* str(id) of a non-negative integer
RECURSIVE ToDigits(_)
ToDigits(n) == IF n < 10 THEN <<DigitChars[n + 1]>>
               ELSE ToDigits(n \div 10) \o <<DigitChars[(n % 10) + 1]>>

\* (\?.+|$) at position i: the position after the match, or 0 when neither
\* alternative matches; "." is any character of the model and ".+" is greedy
QueryOrEnd(s, i) ==
    IF i <= Len(s) /\ s[i] = "?" /\ i + 1 <= Len(s) THEN Len(s) + 1
    ELSE IF i = Len(s) + 1 THEN i
    ELSE 0

\* fetch.py:127, group 2 of (^/dashboards/)[0-9]+(-[a-z0-9-]+\?.+|$) tried at
\* position i: the position after the match, or 0.  The alternation is inside
\* the group: either -slug?query, or the end of the string.
FetchGroup2(s, i) ==
    LET n == SlugRun(s, i + 1)
        j == i + 1 + n
    IN  IF /\ i <= Len(s) /\ s[i] = "-"
           /\ n >= 1
           /\ j <= Len(s) /\ s[j] = "?"
           /\ j + 1 <= Len(s)
        THEN Len(s) + 1
        ELSE IF i = Len(s) + 1 THEN i
        ELSE 0

\* fetch.py:127  re.sub(pattern, r'\g<1>0\g<2>', column["linkUrlTemplate"])
anonymize_link(url) ==
    IF Len(url) >= 1 /\ url[1] = DASHBOARDS
    THEN LET k == DigitRun(url, 2)
             e == FetchGroup2(url, 2 + k)
         IN  IF k >= 1 /\ e > 0
             THEN <<DASHBOARDS, "0">> \o SubSeq(url, 2 + k, e - 1)
                                     \o SubSeq(url, e, Len(url))
             ELSE url
    ELSE url

\* push.py:82  [d["id"] for d in existing_dashboards.values() if d["slug"] == slug]
\* dashboards is the sequence existing_dashboards.values()
RECURSIVE IdsWithSlug(_, _)
IdsWithSlug(dashboards, slug) ==
    IF dashboards = <<>> THEN <<>>
    ELSE (IF Head(dashboards).slug = slug THEN <<Head(dashboards).id>> ELSE <<>>)
         \o IdsWithSlug(Tail(dashboards), slug)

\* push.py:76  ^/dashboards/([0-9]+)-([a-z0-9-]+)(\?.+|$) : the groups, or
\* matched = FALSE
LinkMatch(url) ==
    LET k == DigitRun(url, 2)
        n == SlugRun(url, 3 + k)
        e == QueryOrEnd(url, 3 + k + n)
    IN  IF /\ Len(url) >= 1 /\ url[1] = DASHBOARDS
           /\ k >= 1
           /\ 2 + k <= Len(url) /\ url[2 + k] = "-"
           /\ n >= 1
           /\ e > 0
        THEN [matched |-> TRUE,
              slug    |-> SubSeq(url, 3 + k, 2 + k + n),
              query   |-> SubSeq(url, 3 + k + n, Len(url))]
        ELSE [matched |-> FALSE, slug |-> <<>>, query |-> <<>>]

\* lines 68-86 with the url rebuilt from the id and the slug only
fix_dashboard_url_id_NoQuery(url, dashboards) ==
    LET m   == LinkMatch(url)
        ids == IdsWithSlug(dashboards, m.slug)
    IN  IF ~m.matched THEN url
        ELSE IF ids # <<>>
             THEN <<DASHBOARDS>> \o ToDigits(ids[1]) \o <<"-">> \o m.slug
             ELSE url

\* push.py:68-86
fix_dashboard_url_id(url, dashboards) ==
    LET m   == LinkMatch(url)
        ids == IdsWithSlug(dashboards, m.slug)
    IN  IF ~m.matched THEN url
        ELSE IF ids # <<>>
             THEN <<DASHBOARDS>> \o ToDigits(ids[1]) \o <<"-">> \o m.slug \o m.query
             ELSE url

\* push.py:84-85  the IndexError branch: logging.error and the url is kept
LinkUnresolved(url, dashboards) ==
    LET m == LinkMatch(url)
    IN  m.matched /\ IdsWithSlug(dashboards, m.slug) = <<>>

----------------------------------------------------------------------------
(* Sequence helpers *)

Range(s) == {s[i] : i \in 1..Len(s)}

\* the sequences that hold every element of the finite set S once
Perms(S) == {s \in [1..Cardinality(S) -> S] : Range(s) = S}

\* next(i for i in s if i["name"] == name, None): the index, or 0
FirstNamed(s, name) ==
    IF \E i \in 1..Len(s) : s[i].name = name
    THEN CHOOSE i \in 1..Len(s) : s[i].name = name /\ \A j \in 1..(i - 1) : s[j].name # name
    ELSE 0

----------------------------------------------------------------------------
(* State *)

VARIABLES
    pc,                 \* position of the run
    datasource_name,    \* --data-source-name: <<>> when not given, else <<name>>
    datasources,        \* the server's data sources
    datasource,         \* the data source find_data_source selected
    diskQueries,        \* the *.meta.yaml documents, in directory-listing order
    diskDashboards,     \* the dashboards/*.yaml documents, in directory-listing order
    saved_queries,      \* push: name -> query_data, loaded from disk
    queryOrder,         \* push: the keys of saved_queries in dict order
    saved_dashboards,   \* push: name -> dashboard_data, loaded from disk
    dashOrder,          \* push: the keys of saved_dashboards in dict order
    existing_queries,   \* push: name -> query as downloaded from the server
    existing_dashboards,\* push: the values of the dict name -> dashboard, in dict order
    srvQueries,         \* server: the queries, each with its visualizations
    srvDashboards,      \* server: the dashboards, each with its widgets
    nextId,             \* server: the next id it assigns
    stack,              \* push: the activation records of upload_query, innermost last
    qi,                 \* push: index of upload_queries' loop in queryOrder
    di,                 \* push: index of a loop over dashOrder
    wi,                 \* push: index of update_dashboards' widget loops
    error,              \* push: update_dashboards' error flag
    log,                \* history: calls and returns of upload_query, requests sent,
                        \* documents written
    linkOrig,           \* link template: as first given
    linkUrl,            \* link template: current value
    linkPhase,          \* link template: "server", "disk" or "pushed"
    linkDashboards      \* link template: existing_dashboards.values() of the push

cliVars == <<datasource_name, datasources, datasource>>
diskVars == <<diskQueries, diskDashboards>>
savedVars == <<saved_queries, queryOrder, saved_dashboards, dashOrder>>
existingVars == <<existing_queries, existing_dashboards>>
srvVars == <<srvQueries, srvDashboards, nextId>>
ctlVars == <<stack, qi, di, wi, error>>
linkVars == <<linkOrig, linkUrl, linkPhase, linkDashboards>>
pushVars == <<pc, cliVars, diskVars, savedVars, existingVars, srvVars, ctlVars, log>>
vars == <<pushVars, linkVars>>

----------------------------------------------------------------------------
(* History *)

CallEv(name) == [kind |-> "call", name |-> name]

ReturnEv(name, id) == [kind |-> "return", name |-> name, id |-> id]

\* a request sent to the server: id is the id the request addresses or, for a
\* create, the id the server answers with; name names the entity (its
\* dashboard for a widget); data is the request's payload
Request(op, name, id, data) ==
    [kind |-> "request", op |-> op, name |-> name, id |-> id, data |-> data]

IsRequest(e, op) == e.kind = "request" /\ e.op = op

\* the operator starts another run of a program
RunEv(name) == [kind |-> "run", name |-> name]

\* a document written to disk: file is "query" (a metadata document) or
\* "dashboard", name the name its path is made of, assigned the allow-listed
\* fields that were assigned to the loaded document
WriteEv(file, name, data, assigned) ==
    [kind |-> "write", file |-> file, name |-> name, data |-> data, assigned |-> assigned]

----------------------------------------------------------------------------
(* The Redash server, as far as push and fetch depend on it *)

\* the slug the server derives from a dashboard's name
Slugify(name) == IF name = "da" THEN <<"a">> ELSE IF name = "db" THEN <<"b">> ELSE <<"a", "b">>

\* the visualization the server adds to every query it creates
DefaultTable(id) ==
    [id |-> id, type |-> "TABLE", name |-> "Table", options |-> <<>>, description |-> ""]

\* POST api/queries: the created query is a draft and has the default Table
ServerCreateQuery(id, query_data) ==
    [id |-> id, name |-> query_data.name, is_draft |-> TRUE,
     options |-> query_data.options, visualizations |-> <<DefaultTable(id + 1)>>]

\* POST api/queries/<id>
ServerUpdateQuery(queries, id, query_data) ==
    [i \in 1..Len(queries) |->
        IF queries[i].id = id
        THEN [queries[i] EXCEPT !.name = query_data.name, !.is_draft = query_data.is_draft,
                                !.options = query_data.options]
        ELSE queries[i]]

\* what the server keeps of a visualization it is sent
ServerViz(id, visualization) ==
    [id |-> id, type |-> visualization.type, name |-> visualization.name,
     options |-> visualization.options, description |-> visualization.description]

\* POST api/visualizations (push.py:52): added to the query data["query_id"]
ServerCreateViz(queries, id, visualization) ==
    [i \in 1..Len(queries) |->
        IF queries[i].id = visualization.query_id
        THEN [queries[i] EXCEPT !.visualizations = Append(@, ServerViz(id, visualization))]
        ELSE queries[i]]

\* POST api/visualizations/<id>
ServerUpdateViz(queries, id, visualization) ==
    [i \in 1..Len(queries) |->
        [queries[i] EXCEPT !.visualizations =
            [j \in 1..Len(@) |-> IF @[j].id = id THEN ServerViz(id, visualization) ELSE @[j]]]]

\* POST api/dashboards: a draft without widgets
ServerCreateDashboard(id, name) ==
    [id |-> id, name |-> name, slug |-> Slugify(name), is_draft |-> TRUE, widgets |-> <<>>]

\* POST api/dashboards/<id>
ServerUpdateDashboard(dashboards, id, settings) ==
    [i \in 1..Len(dashboards) |->
        IF dashboards[i].id = id
        THEN [dashboards[i] EXCEPT !.is_draft = settings.is_draft]
        ELSE dashboards[i]]

\* DELETE api/widgets/<id> (push.py:65)
ServerDeleteWidget(dashboards, id) ==
    [i \in 1..Len(dashboards) |->
        [dashboards[i] EXCEPT !.widgets = SelectSeq(@, LAMBDA w : w.id # id)]]

\* every visualization of the server, as a widget embeds it
ServerVizEmbeds(queries) ==
    UNION {{[id |-> q.visualizations[j].id, name |-> q.visualizations[j].name,
             query |-> [name |-> q.name]] : j \in 1..Len(q.visualizations)}
           : q \in Range(queries)}

\* POST api/widgets: a widget of a visualization the server knows embeds it
ServerCreateWidget(dashboards, queries, id, dashboard_id, visualization_id, text, options) ==
    LET known  == {v \in ServerVizEmbeds(queries) : v.id = visualization_id}
        base   == [id |-> id, text |-> text, options |-> options]
        widget == IF known = {} THEN base
                  ELSE Put(base, "visualization", CHOOSE v \in known : TRUE)
    IN  [i \in 1..Len(dashboards) |->
            IF dashboards[i].id = dashboard_id
            THEN [dashboards[i] EXCEPT !.widgets = Append(@, widget)]
            ELSE dashboards[i]]

----------------------------------------------------------------------------
(* push: selecting the data source and loading *)

\* lines 220-246 with line 237 taking any data source when there are several
find_data_source_Any(sources, name) ==
    LET named == {d \in sources : name # <<>> /\ d.name = name[1]}
    IN  IF name # <<>>
        THEN IF named # {} THEN [what |-> "found", source |-> CHOOSE d \in named : TRUE]
             ELSE [what |-> "KeyError", source |-> <<>>]
        ELSE IF Cardinality(sources) >= 1
             THEN [what |-> "found", source |-> CHOOSE d \in sources : TRUE]
             ELSE [what |-> "RuntimeError", source |-> <<>>]

\* push.py:220-246; what: "found", "KeyError" (line 236) or "RuntimeError" (line 246)
find_data_source(sources, name) ==
    LET named == {d \in sources : name # <<>> /\ d.name = name[1]}
    IN  IF name # <<>>
        THEN IF named # {} THEN [what |-> "found", source |-> CHOOSE d \in named : TRUE]
             ELSE [what |-> "KeyError", source |-> <<>>]
        ELSE IF Cardinality(sources) = 1
             THEN [what |-> "found", source |-> CHOOSE d \in sources : TRUE]
             ELSE [what |-> "RuntimeError", source |-> <<>>]

\* push.py:175-200: the dict name -> query_data of the documents on disk
load_saved_queries(docs, source) ==
    [n \in {d.name : d \in Range(docs)} |->
        Put((CHOOSE d \in Range(docs) : d.name = n), "data_source_id", source.id)]

\* push.py:249-264
load_saved_dashboards(docs) ==
    [n \in {d.name : d \in Range(docs)} |-> CHOOSE d \in Range(docs) : d.name = n]

\* the keys of a dict built from documents in this order
KeyOrder(docs) == [i \in 1..Len(docs) |-> docs[i].name]

\* push.py:402-403  {q["name"]: redash.get_query(q["id"]) for q in ...}
ExistingQueries(queries) ==
    [n \in {q.name : q \in Range(queries)} |-> CHOOSE q \in Range(queries) : q.name = n]

\* push.py:388-398
PushStart ==
    /\ pc = "push"
    /\ LET found == find_data_source(datasources, datasource_name)
       IN  IF found.what = "found"
           THEN /\ datasource' = found.source
                /\ existing_dashboards' = srvDashboards
                /\ saved_dashboards' = load_saved_dashboards(diskDashboards)
                /\ dashOrder' = KeyOrder(diskDashboards)
                /\ di' = 1
                /\ pc' = "create_missing_dashboards"
           ELSE /\ pc' = IF found.what = "RuntimeError" THEN "exit1" ELSE "crashed"
                /\ UNCHANGED <<datasource, existing_dashboards, saved_dashboards,
                               dashOrder, di>>
    /\ UNCHANGED <<datasource_name, datasources, diskVars, saved_queries, queryOrder,
                   existing_queries, srvVars, stack, qi, wi, error, log, linkVars>>

\* lines 278-291 with the update of lines 286-290 in the else branch of line 279:
\* a dashboard that was just created is not updated
CreateMissingDashboard_NoUpdate ==
    /\ pc = "create_missing_dashboards"
    /\ di <= Len(dashOrder)
    /\ LET name     == dashOrder[di]
           missing  == FirstNamed(existing_dashboards, name) = 0
           created  == ServerCreateDashboard(nextId, name)
           existing == IF missing THEN Append(existing_dashboards, created)
                       ELSE existing_dashboards
           id       == existing[FirstNamed(existing, name)].id
           settings == [is_draft |-> saved_dashboards[name].is_draft]
       IN  /\ existing_dashboards' = existing
           /\ srvDashboards' = IF missing THEN Append(srvDashboards, created)
                                ELSE ServerUpdateDashboard(srvDashboards, id, settings)
           /\ nextId' = IF missing THEN nextId + 1 ELSE nextId
           /\ log' = Append(log, IF missing
                                 THEN Request("create_dashboard", name, nextId, [name |-> name])
                                 ELSE Request("update_dashboard", name, id, settings))
    /\ di' = di + 1
    /\ UNCHANGED <<pc, cliVars, diskVars, savedVars, existing_queries, srvQueries,
                   stack, qi, wi, error, linkVars>>

\* push.py:278-291, one iteration
CreateMissingDashboard ==
    /\ pc = "create_missing_dashboards"
    /\ di <= Len(dashOrder)
    /\ LET name     == dashOrder[di]
           missing  == FirstNamed(existing_dashboards, name) = 0
           created  == ServerCreateDashboard(nextId, name)
           existing == IF missing THEN Append(existing_dashboards, created)
                       ELSE existing_dashboards
           server   == IF missing THEN Append(srvDashboards, created) ELSE srvDashboards
           id       == existing[FirstNamed(existing, name)].id
           settings == [is_draft |-> saved_dashboards[name].is_draft]
       IN  /\ existing_dashboards' = existing
           /\ srvDashboards' = ServerUpdateDashboard(server, id, settings)
           /\ nextId' = IF missing THEN nextId + 1 ELSE nextId
           /\ log' = log \o (IF missing
                             THEN <<Request("create_dashboard", name, nextId, [name |-> name])>>
                             ELSE <<>>)
                         \o <<Request("update_dashboard", name, id, settings)>>
    /\ di' = di + 1
    /\ UNCHANGED <<pc, cliVars, diskVars, savedVars, existing_queries, srvQueries,
                   stack, qi, wi, error, linkVars>>

\* push.py:402-405
LoadQueries ==
    /\ pc = "create_missing_dashboards"
    /\ di > Len(dashOrder)
    /\ existing_queries' = ExistingQueries(srvQueries)
    /\ saved_queries' = load_saved_queries(diskQueries, datasource)
    /\ queryOrder' = KeyOrder(diskQueries)
    /\ qi' = 1
    /\ pc' = "upload_queries"
    /\ UNCHANGED <<cliVars, diskVars, saved_dashboards, dashOrder, existing_dashboards,
                   srvVars, stack, di, wi, error, log, linkVars>>

----------------------------------------------------------------------------
(* push: upload_queries and upload_query *)

\* depth of nested upload_query calls at which Python raises RecursionError
RecursionLimit == 5

\* the run ends with an uncaught exception
Crash ==
    /\ pc' = "crashed"
    /\ UNCHANGED <<cliVars, diskVars, savedVars, existingVars, srvVars, ctlVars, log, linkVars>>

\* an activation record of upload_query: at is "enter" (line 112), "params"
\* (the loop of line 120, at parameter pi), "update" (line 137) or "viz" (the
\* loop of line 148, at visualization vi)
Frame(query_name) == [query_name |-> query_name, at |-> "enter", pi |-> 1, vi |-> 1]

Top == stack[Len(stack)]

SetTop(f) == [stack EXCEPT ![Len(stack)] = f]

\* upload_query without line 115: no call is answered from an earlier one
HasUploadedId_Never(query_data) == FALSE

\* push.py:115  "uploaded_id" in query_data
HasUploadedId(query_data) == HasKey(query_data, "uploaded_id")

\* push.py:119  the parameters the loop of line 120 visits
ParametersOf(query_data) ==
    IF HasKey(query_data.options, "parameters") THEN query_data.options.parameters ELSE <<>>

\* lines 124-127 without the del of line 127: the name stays beside the id
ParamAfterCall_KeepName(param, id) == Put(param, "queryId", id)

\* push.py:124-127  param["queryId"] = <returned id>; del param["queryName"]
ParamAfterCall(param, id) == Del(Put(param, "queryId", id), "queryName")

\* line 130 reached without the loop of lines 119-127 having run to its end
AtCreate_BeforeParams(f) ==
    /\ f.at = "params"
    /\ f.query_name \in DOMAIN saved_queries

\* the loop of lines 119-127 is over: line 130 is next
AtCreate(f) ==
    /\ f.at = "params"
    /\ f.query_name \in DOMAIN saved_queries
    /\ f.pi > Len(ParametersOf(saved_queries[f.query_name]))

\* push.py:116 and 172: the innermost call returns id; its caller, at line 124,
\* stores it in the parameter and goes on with the next one
Return(id) ==
    LET rest == SubSeq(stack, 1, Len(stack) - 1)
    IN  /\ log' = Append(log, ReturnEv(Top.query_name, id))
        /\ IF rest = <<>>
           THEN /\ stack' = <<>>
                /\ qi' = qi + 1
                /\ UNCHANGED saved_queries
           ELSE LET c == rest[Len(rest)]
                IN  /\ saved_queries' =
                          [saved_queries EXCEPT ![c.query_name].options.parameters[c.pi] =
                              ParamAfterCall(@, id)]
                    /\ stack' = [rest EXCEPT ![Len(rest)].pi = c.pi + 1]
                    /\ UNCHANGED qi

\* push.py:215-217, one iteration: the call
UploadQueriesCall ==
    /\ pc = "upload_queries"
    /\ stack = <<>>
    /\ qi <= Len(queryOrder)
    /\ stack' = <<Frame(queryOrder[qi])>>
    /\ log' = Append(log, CallEv(queryOrder[qi]))
    /\ UNCHANGED <<pc, cliVars, diskVars, savedVars, existingVars, srvVars, qi, di, wi,
                   error, linkVars>>

\* push.py:112-116
UQ_Enter ==
    /\ pc = "upload_queries"
    /\ stack # <<>>
    /\ Top.at = "enter"
    /\ IF Top.query_name \notin DOMAIN saved_queries
       THEN Crash
       ELSE IF HasUploadedId(saved_queries[Top.query_name])
       THEN /\ Return(saved_queries[Top.query_name].uploaded_id)
            /\ UNCHANGED <<pc, cliVars, diskVars, queryOrder, saved_dashboards, dashOrder,
                           existingVars, srvVars, di, wi, error, linkVars>>
       ELSE /\ stack' = SetTop([Top EXCEPT !.at = "params"])
            /\ UNCHANGED <<pc, cliVars, diskVars, savedVars, existingVars, srvVars, qi, di,
                           wi, error, log, linkVars>>

\* push.py:120-121: a parameter that is not query-typed
UQ_ParamSkip ==
    /\ pc = "upload_queries"
    /\ stack # <<>>
    /\ Top.at = "params"
    /\ Top.pi <= Len(ParametersOf(saved_queries[Top.query_name]))
    /\ ParametersOf(saved_queries[Top.query_name])[Top.pi].type # "query"
    /\ stack' = SetTop([Top EXCEPT !.pi = @ + 1])
    /\ UNCHANGED <<pc, cliVars, diskVars, savedVars, existingVars, srvVars, qi, di, wi,
                   error, log, linkVars>>

\* lines 121-126 without the call: the parameter is passed over
UQ_ParamCall_NoRecursion ==
    /\ pc = "upload_queries"
    /\ stack # <<>>
    /\ Top.at = "params"
    /\ Top.pi <= Len(ParametersOf(saved_queries[Top.query_name]))
    /\ ParametersOf(saved_queries[Top.query_name])[Top.pi].type = "query"
    /\ stack' = SetTop([Top EXCEPT !.pi = @ + 1])
    /\ UNCHANGED <<pc, cliVars, diskVars, savedVars, existingVars, srvVars, qi, di, wi,
                   error, log, linkVars>>

\* push.py:121-126: a query-typed parameter, the recursive call
UQ_ParamCall ==
    /\ pc = "upload_queries"
    /\ stack # <<>>
    /\ Top.at = "params"
    /\ Top.pi <= Len(ParametersOf(saved_queries[Top.query_name]))
    /\ LET param == ParametersOf(saved_queries[Top.query_name])[Top.pi]
       IN  /\ param.type = "query"
           /\ IF ~HasKey(param, "queryName") \/ Len(stack) >= RecursionLimit
              THEN Crash
              ELSE /\ stack' = Append(stack, Frame(param.queryName))
                   /\ log' = Append(log, CallEv(param.queryName))
                   /\ UNCHANGED <<pc, cliVars, diskVars, savedVars, existingVars, srvVars,
                                  qi, di, wi, error, linkVars>>

\* lines 130-134 without the test of line 130: a query may be created although
\* there is one of its name
UQ_Create_Always ==
    /\ pc = "upload_queries"
    /\ stack # <<>>
    /\ AtCreate(Top)
    /\ LET query_name == Top.query_name
           query_data == saved_queries[query_name]
           new_query  == ServerCreateQuery(nextId, query_data)
       IN  /\ srvQueries' = Append(srvQueries, new_query)
           /\ nextId' = nextId + 2
           /\ existing_queries' = Put(existing_queries, query_name, new_query)
           /\ log' = Append(log, Request("create_query", query_name, nextId, query_data))
    /\ stack' = SetTop([Top EXCEPT !.at = "update"])
    /\ UNCHANGED <<pc, cliVars, diskVars, savedVars, existing_dashboards, srvDashboards,
                   qi, di, wi, error, linkVars>>

\* push.py:130-134
UQ_Create ==
    /\ pc = "upload_queries"
    /\ stack # <<>>
    /\ AtCreate(Top)
    /\ Top.query_name \notin DOMAIN existing_queries
    /\ LET query_name == Top.query_name
           query_data == saved_queries[query_name]
           new_query  == ServerCreateQuery(nextId, query_data)
       IN  /\ srvQueries' = Append(srvQueries, new_query)
           /\ nextId' = nextId + 2
           /\ existing_queries' = Put(existing_queries, query_name, new_query)
           /\ log' = Append(log, Request("create_query", query_name, nextId, query_data))
    /\ stack' = SetTop([Top EXCEPT !.at = "update"])
    /\ UNCHANGED <<pc, cliVars, diskVars, savedVars, existing_dashboards, srvDashboards,
                   qi, di, wi, error, linkVars>>

\* push.py:137-143
UQ_Update ==
    /\ pc = "upload_queries"
    /\ stack # <<>>
    /\ \/ Top.at = "update"
       \/ AtCreate(Top) /\ Top.query_name \in DOMAIN existing_queries
    /\ LET query_name == Top.query_name
           query_data == saved_queries[query_name]
           query_id   == existing_queries[query_name].id
       IN  /\ srvQueries' = ServerUpdateQuery(srvQueries, query_id, query_data)
           /\ log' = Append(log, Request("update_query", query_name, query_id, query_data))
           /\ saved_queries' =
                 [saved_queries EXCEPT ![query_name] = Put(@, "uploaded_id", query_id)]
    /\ stack' = SetTop([Top EXCEPT !.at = "viz", !.vi = 1])
    /\ UNCHANGED <<pc, cliVars, diskVars, queryOrder, saved_dashboards, dashOrder,
                   existingVars, srvDashboards, nextId, qi, di, wi, error, linkVars>>

\* push.py:151-154
FixColumns(options, dashboards) ==
    IF HasKey(options, "columns")
    THEN [options EXCEPT !.columns =
            [i \in 1..Len(@) |->
                IF HasKey(@[i], "displayAs") /\ @[i].displayAs = "link"
                THEN [@[i] EXCEPT !.linkUrlTemplate = fix_dashboard_url_id(@, dashboards)]
                ELSE @[i]]]
    ELSE options

\* lines 145-147 with an empty existing_visualisations
ExistingViz_Never(visualizations, name) == 0

\* push.py:145-147  existing_visualisations[name], as an index: 0 when missing
ExistingViz(visualizations, name) ==
    IF \E i \in 1..Len(visualizations) : visualizations[i].name = name
    THEN CHOOSE i \in 1..Len(visualizations) :
            /\ visualizations[i].name = name
            /\ \A j \in (i + 1)..Len(visualizations) : visualizations[j].name # name
    ELSE 0

\* push.py:148-170, one iteration
UQ_Viz ==
    /\ pc = "upload_queries"
    /\ stack # <<>>
    /\ Top.at = "viz"
    /\ Top.vi <= Len(saved_queries[Top.query_name].visualizations)
    /\ LET query_name == Top.query_name
           query_id   == saved_queries[query_name].uploaded_id
           remote     == existing_queries[query_name].visualizations
           saved      == saved_queries[query_name].visualizations[Top.vi]
           visualization ==
               [Put(saved, "query_id", query_id) EXCEPT
                   !.options = FixColumns(@, existing_dashboards)]
           e          == ExistingViz(remote, visualization.name)
           id         == IF e # 0 THEN remote[e].id ELSE nextId
       IN  /\ srvQueries' = IF e # 0 THEN ServerUpdateViz(srvQueries, id, visualization)
                            ELSE ServerCreateViz(srvQueries, id, visualization)
           /\ nextId' = IF e # 0 THEN nextId ELSE nextId + 1
           /\ log' = Append(log, Request(IF e # 0 THEN "update_visualization"
                                         ELSE "create_visualization",
                                         visualization.name, id, visualization))
           /\ saved_queries' =
                 [saved_queries EXCEPT ![query_name].visualizations[Top.vi] =
                     Put(visualization, "uploaded_id", id)]
    /\ stack' = SetTop([Top EXCEPT !.vi = @ + 1])
    /\ UNCHANGED <<pc, cliVars, diskVars, queryOrder, saved_dashboards, dashOrder,
                   existingVars, srvDashboards, qi, di, wi, error, linkVars>>

\* push.py:172
UQ_Return ==
    /\ pc = "upload_queries"
    /\ stack # <<>>
    /\ Top.at = "viz"
    /\ Top.vi > Len(saved_queries[Top.query_name].visualizations)
    /\ Return(saved_queries[Top.query_name].uploaded_id)
    /\ UNCHANGED <<pc, cliVars, diskVars, queryOrder, saved_dashboards, dashOrder,
                   existingVars, srvVars, di, wi, error, linkVars>>

\* push.py:215, the loop is over; line 409 calls update_dashboards
UploadQueriesDone ==
    /\ pc = "upload_queries"
    /\ stack = <<>>
    /\ qi > Len(queryOrder)
    /\ pc' = "update_dashboards"
    /\ di' = 1
    /\ wi' = 0
    /\ UNCHANGED <<cliVars, diskVars, savedVars, existingVars, srvVars, stack, qi, error,
                   log, linkVars>>

----------------------------------------------------------------------------
(* push: update_dashboards *)

\* existing_dashboards taken as a list: the first dashboard, whatever its name
ExistingDashboard_First(name) == existing_dashboards[1]

\* existing_dashboards[name]
ExistingDashboard(name) == existing_dashboards[FirstNamed(existing_dashboards, name)]

\* line 321 with the default Table taken as present: a widget of "Table" gets
\* the query's first visualization when none has that name
ResolveVisualization_ImplicitTable(query, visualisationName) ==
    IF /\ FirstNamed(query.visualizations, visualisationName) = 0
       /\ visualisationName = "Table"
       /\ query.visualizations # <<>>
    THEN 1
    ELSE FirstNamed(query.visualizations, visualisationName)

\* push.py:321  the saved visualization the widget names, as an index: 0 for None
ResolveVisualization(query, visualisationName) ==
    FirstNamed(query.visualizations, visualisationName)

\* lines 308-310 without the loop of lines 311-313: nothing is deleted
UD_Begin_NoDelete ==
    /\ pc = "update_dashboards"
    /\ di <= Len(dashOrder)
    /\ pc' = "add_widgets"
    /\ wi' = 1
    /\ UNCHANGED <<cliVars, diskVars, savedVars, existingVars, srvVars, stack, qi, di,
                   error, log, linkVars>>

\* push.py:308-310: the next saved dashboard
UD_Begin ==
    /\ pc = "update_dashboards"
    /\ di <= Len(dashOrder)
    /\ pc' = "delete_widgets"
    /\ wi' = 1
    /\ UNCHANGED <<cliVars, diskVars, savedVars, existingVars, srvVars, stack, qi, di,
                   error, log, linkVars>>

\* push.py:311-313, one iteration: line 312 reads w["visualization"]
UD_Delete ==
    /\ pc = "delete_widgets"
    /\ wi <= Len(ExistingDashboard(dashOrder[di]).widgets)
    /\ LET w == ExistingDashboard(dashOrder[di]).widgets[wi]
       IN  IF ~HasKey(w, "visualization")
           THEN Crash
           ELSE /\ srvDashboards' = ServerDeleteWidget(srvDashboards, w.id)
                /\ log' = Append(log, Request("delete_widget", dashOrder[di], w.id, <<>>))
                /\ wi' = wi + 1
                /\ UNCHANGED <<pc, cliVars, diskVars, savedVars, existingVars, srvQueries,
                               nextId, stack, qi, di, error, linkVars>>

\* push.py:311, the loop is over; line 315 is next
UD_DeleteDone ==
    /\ pc = "delete_widgets"
    /\ wi > Len(ExistingDashboard(dashOrder[di]).widgets)
    /\ pc' = "add_widgets"
    /\ wi' = 1
    /\ UNCHANGED <<cliVars, diskVars, savedVars, existingVars, srvVars, stack, qi, di,
                   error, log, linkVars>>

\* push.py:315-332, one iteration
UD_Add ==
    /\ pc = "add_widgets"
    /\ wi <= Len(saved_dashboards[dashOrder[di]].widgets)
    /\ LET name == dashOrder[di]
           w    == saved_dashboards[name].widgets[wi]
       IN  IF ~HasKey(w, "visualization")
           THEN Crash
           ELSE IF w.visualization.queryName \notin DOMAIN saved_queries
           THEN Crash
           ELSE LET query == saved_queries[w.visualization.queryName]
                    v     == ResolveVisualization(query, w.visualization.name)
                IN  IF v = 0
                    THEN /\ error' = TRUE
                         /\ wi' = wi + 1
                         /\ UNCHANGED <<pc, cliVars, diskVars, savedVars, existingVars,
                                        srvVars, stack, qi, di, log, linkVars>>
                    ELSE LET dashboard_id     == ExistingDashboard(name).id
                             visualization_id == query.visualizations[v].uploaded_id
                         IN  /\ srvDashboards' =
                                   ServerCreateWidget(srvDashboards, srvQueries, nextId,
                                       dashboard_id, visualization_id, w.text, w.options)
                             /\ nextId' = nextId + 1
                             /\ log' = Append(log,
                                   Request("create_widget", name, nextId,
                                       [dashboard_id |-> dashboard_id,
                                        visualization_id |-> visualization_id,
                                        text |-> w.text, options |-> w.options]))
                             /\ wi' = wi + 1
                             /\ UNCHANGED <<pc, cliVars, diskVars, savedVars, existingVars,
                                            srvQueries, stack, qi, di, error, linkVars>>

\* push.py:315, the loop is over; line 308 takes the next dashboard
UD_AddDone ==
    /\ pc = "add_widgets"
    /\ wi > Len(saved_dashboards[dashOrder[di]].widgets)
    /\ pc' = "update_dashboards"
    /\ di' = di + 1
    /\ wi' = 0
    /\ UNCHANGED <<cliVars, diskVars, savedVars, existingVars, srvVars, stack, qi, error,
                   log, linkVars>>

\* lines 333-338 answering 0 whatever the flag
Result_Ok(err) == 0

\* push.py:333-338  the result of update_dashboards
Result(err) == IF err THEN 1 ELSE 0

\* push.py:333-338 and 412  exit(result)
UD_Finish ==
    /\ pc = "update_dashboards"
    /\ di > Len(dashOrder)
    /\ pc' = IF Result(error) = 1 THEN "exit1" ELSE "exit0"
    /\ UNCHANGED <<cliVars, diskVars, savedVars, existingVars, srvVars, ctlVars, log,
                   linkVars>>

----------------------------------------------------------------------------
(* fetch: save_queries and save_dashboards *)

\* fetch.py:31-40; the model's queries have these of the allow-listed fields
QUERY_META_FIELDS == <<"name", "is_draft", "options">>

\* fetch.py:42-46
VISUALIZATIONS_IGNORE_FIELDS == {"id", "updated_at", "created_at"}

\* fetch.py:48-57; the model's dashboards have these of the allow-listed fields
DASHBOARD_FIELDS == <<"slug", "name", "is_draft">>

\* fetch.py:59-66
DASHBOARD_WIDGET_IGNORE_FIELDS ==
    {"dashboard_id", "id", "updated_at", "created_at", "query", "visualization"}

\* fetch.py:129-134  the visualization that is not persisted
DEFAULT_TABLE == [type |-> "TABLE", name |-> "Table", options |-> <<>>, description |-> ""]

\* the order of sort() on the names of the model's visualizations
NameRank(name) ==
    IF name = "Chart" THEN 1 ELSE IF name = "Missing" THEN 2 ELSE IF name = "Table" THEN 3 ELSE 4

\* list.sort(key): a stable insertion sort of [key, value] pairs by integer key
RECURSIVE InsertKeyed(_, _)
InsertKeyed(sorted, x) ==
    IF sorted = <<>> THEN <<x>>
    ELSE IF x.key < Head(sorted).key THEN <<x>> \o sorted
    ELSE <<Head(sorted)>> \o InsertKeyed(Tail(sorted), x)

RECURSIVE SortKeyed(_)
SortKeyed(s) ==
    IF s = <<>> THEN <<>>
    ELSE InsertKeyed(SortKeyed(SubSeq(s, 1, Len(s) - 1)), s[Len(s)])

\* s.sort(key=...): the values of the [key, value] pairs in the order of their keys
SortValues(keyed) ==
    LET sorted == SortKeyed(keyed)
    IN  [i \in 1..Len(sorted) |-> sorted[i].value]

\* the document with this name (the file the name maps to), as an index: 0 when
\* there is no such file
DocIndex(docs, name) == FirstNamed(docs, name)

\* the documents after the file of doc's name was written
WriteDoc(docs, doc) ==
    IF DocIndex(docs, doc.name) = 0 THEN Append(docs, doc)
    ELSE [docs EXCEPT ![DocIndex(docs, doc.name)] = doc]

\* fetch.py:95-102 and 161-167: the existing document, {} when the file is missing
LoadDoc(docs, name) == IF DocIndex(docs, name) = 0 THEN <<>> ELSE docs[DocIndex(docs, name)]

\* queries[id]["name"] of fetch.py:108; the id is a key of queries
QueryNameById(queries, id) == (CHOOSE q \in Range(queries) : q.id = id).name

\* lines 107-109 without the del of line 109
ParamToName_KeepId(param, queries) ==
    Put(param, "queryName", QueryNameById(queries, param.queryId))

\* fetch.py:107-109  param["queryName"] = queries[param["queryId"]]["name"]; del param["queryId"]
ParamToName(param, queries) ==
    Del(Put(param, "queryName", QueryNameById(queries, param.queryId)), "queryId")

\* fetch.py:105-109
OptionsToNames(options, queries) ==
    IF HasKey(options, "parameters")
    THEN [options EXCEPT !.parameters =
            [i \in 1..Len(@) |-> IF @[i].type = "query" THEN ParamToName(@[i], queries)
                                 ELSE @[i]]]
    ELSE options

\* fetch.py:108 raises KeyError: a query-typed parameter names no fetched query
ParamKeyError(query, queries) ==
    /\ HasKey(query.options, "parameters")
    /\ \E i \in 1..Len(query.options.parameters) :
          LET param == query.options.parameters[i]
          IN  /\ param.type = "query"
              /\ \/ ~HasKey(param, "queryId")
                 \/ \A q \in Range(queries) : q.id # param.queryId

\* the test of lines 115 and 170 left out: every field is assigned
Differs_Always(metadata, source, field) == TRUE

\* fetch.py:115 and 170: metadata.get(field) != query.get(field); no value of
\* the model's documents is None, so a missing key differs from every value
Differs(metadata, source, field) ==
    ~HasKey(metadata, field) \/ metadata[field] # source[field]

\* fetch.py:112-116 and 169-171: the fields the loop assigns
AssignedFields(metadata, source, fields) ==
    {field \in Range(fields) : HasKey(source, field) /\ Differs(metadata, source, field)}

\* fetch.py:112-116 and 169-171: assign the fields that differ
MergeFields(metadata, source, fields) ==
    LET assigned == AssignedFields(metadata, source, fields)
    IN  [k \in DOMAIN metadata \cup assigned |->
            IF k \in assigned THEN source[k] ELSE metadata[k]]

\* fetch.py:125-127
AnonymizeColumns(options) ==
    IF HasKey(options, "columns")
    THEN [options EXCEPT !.columns =
            [i \in 1..Len(@) |->
                IF HasKey(@[i], "displayAs") /\ @[i].displayAs = "link"
                THEN [@[i] EXCEPT !.linkUrlTemplate = anonymize_link(@)]
                ELSE @[i]]]
    ELSE options

\* fetch.py:120-127  a visualization without the ignored fields, its links rewritten
StripViz(viz) ==
    LET kept == [k \in DOMAIN viz \ VISUALIZATIONS_IGNORE_FIELDS |-> viz[k]]
    IN  [kept EXCEPT !.options = AnonymizeColumns(@)]

\* fetch.py:129-134  i != {...}
IsPersisted(viz) == viz # DEFAULT_TABLE

\* fetch.py:119-136
SavedVisualizations(visualizations) ==
    LET kept == SelectSeq([i \in 1..Len(visualizations) |-> StripViz(visualizations[i])],
                          IsPersisted)
    IN  SortValues([i \in 1..Len(kept) |-> [key |-> NameRank(kept[i].name), value |-> kept[i]]])

\* fetch.py:91-136  the metadata document of a query
QueryMetadata(metadata, query, queries) ==
    LET changed == [query EXCEPT !.options = OptionsToNames(@, queries)]
        merged  == MergeFields(metadata, changed, QUERY_META_FIELDS)
    IN  IF HasKey(query, "visualizations")
        THEN Put(merged, "visualizations", SavedVisualizations(query.visualizations))
        ELSE merged

\* the sort key of line 174 without the column
PositionKey_RowOnly(w) == w.options.position.row * 10

\* fetch.py:174  the sort key (row, col) as one integer; col is below 10
PositionKey(w) == w.options.position.row * 10 + w.options.position.col

\* fetch.py:176-181
FilteredWidget(orig_widget) ==
    LET filtered == [k \in DOMAIN orig_widget \ DASHBOARD_WIDGET_IGNORE_FIELDS |->
                        orig_widget[k]]
    IN  IF HasKey(orig_widget, "visualization")
        THEN Put(filtered, "visualization",
                 [name |-> orig_widget.visualization.name,
                  queryName |-> orig_widget.visualization.query.name])
        ELSE filtered

\* fetch.py:157-182  the document of a dashboard
DashboardData(dashboard_data, dashboard) ==
    LET merged == MergeFields(dashboard_data, dashboard, DASHBOARD_FIELDS)
        sorted == SortValues([i \in 1..Len(dashboard.widgets) |->
                                 [key |-> PositionKey(dashboard.widgets[i]),
                                  value |-> dashboard.widgets[i]]])
    IN  Put(merged, "widgets", [i \in 1..Len(sorted) |-> FilteredWidget(sorted[i])])

\* fetch.py:78-140, one iteration (the queries are those of lines 211-212)
FetchQuery ==
    /\ pc = "fetch_queries"
    /\ qi <= Len(srvQueries)
    /\ IF ParamKeyError(srvQueries[qi], srvQueries)
       THEN Crash
       ELSE LET metadata == QueryMetadata(LoadDoc(diskQueries, srvQueries[qi].name),
                                          srvQueries[qi], srvQueries)
            IN  /\ diskQueries' = WriteDoc(diskQueries, metadata)
                /\ log' = Append(log, WriteEv("query", srvQueries[qi].name, metadata,
                                      AssignedFields(
                                          LoadDoc(diskQueries, srvQueries[qi].name),
                                          [srvQueries[qi] EXCEPT
                                              !.options = OptionsToNames(@, srvQueries)],
                                          QUERY_META_FIELDS)))
                /\ qi' = qi + 1
                /\ UNCHANGED <<pc, cliVars, diskDashboards, savedVars, existingVars,
                               srvVars, stack, di, wi, error, linkVars>>

\* fetch.py:213-217: save_queries returns, the dashboards are downloaded
FetchQueriesDone ==
    /\ pc = "fetch_queries"
    /\ qi > Len(srvQueries)
    /\ pc' = "fetch_dashboards"
    /\ di' = 1
    /\ UNCHANGED <<cliVars, diskVars, savedVars, existingVars, srvVars, stack, qi, wi,
                   error, log, linkVars>>

\* fetch.py:153-185, one iteration
FetchDashboard ==
    /\ pc = "fetch_dashboards"
    /\ di <= Len(srvDashboards)
    /\ LET dashboard_data == DashboardData(LoadDoc(diskDashboards, srvDashboards[di].name),
                                           srvDashboards[di])
       IN  /\ diskDashboards' = WriteDoc(diskDashboards, dashboard_data)
           /\ log' = Append(log, WriteEv("dashboard", srvDashboards[di].name, dashboard_data,
                                 AssignedFields(
                                     LoadDoc(diskDashboards, srvDashboards[di].name),
                                     srvDashboards[di], DASHBOARD_FIELDS)))
    /\ di' = di + 1
    /\ UNCHANGED <<pc, cliVars, diskQueries, savedVars, existingVars, srvVars, stack, qi,
                   wi, error, linkVars>>

\* fetch.py:217: save_dashboards returns and fetch ends
FetchDone ==
    /\ pc = "fetch_dashboards"
    /\ di > Len(srvDashboards)
    /\ pc' = IF \E i \in 1..Len(log) : log[i] = RunEv("fetch again") THEN "refetched" ELSE "fetched"
    /\ UNCHANGED <<cliVars, diskVars, savedVars, existingVars, srvVars, ctlVars, log,
                   linkVars>>

\* the operator runs push on what fetch wrote
RunPush ==
    /\ pc = "fetched"
    /\ pc' = "push"
    /\ UNCHANGED <<cliVars, diskVars, savedVars, existingVars, srvVars, ctlVars, log,
                   linkVars>>

\* the operator points push at another Redash server, one without queries and
\* dashboards (--redash-url, push.py:342-349 and 388)
RunPushElsewhere ==
    /\ pc = "fetched"
    /\ pc' = "push"
    /\ srvQueries' = <<>>
    /\ srvDashboards' = <<>>
    /\ log' = Append(log, RunEv("push elsewhere"))
    /\ UNCHANGED <<cliVars, diskVars, savedVars, existingVars, nextId, ctlVars, linkVars>>

\* the operator runs fetch once more after the push of what the first fetch
\* wrote has ended, with its status or with an exception, against the server
\* the first fetch read (fetch.py:203-212)
RunFetchAgain ==
    /\ pc \in {"exit0", "exit1", "crashed"}
    /\ datasource # <<>>
    /\ log # <<>>
    /\ log[1].kind = "write"
    /\ \A i \in 1..Len(log) : log[i].kind # "run"
    /\ pc' = "fetch_queries"
    /\ qi' = 1
    /\ log' = Append(log, RunEv("fetch again"))
    /\ UNCHANGED <<cliVars, diskVars, savedVars, existingVars, srvVars, stack, di, wi,
                   error, linkVars>>

----------------------------------------------------------------------------
(* The documents and server states the runs start from *)

QNames == {"qa", "qb", "qc"}

TextParam == [type |-> "text"]

NameRef(query_name) == [type |-> "query", queryName |-> query_name]

IdRef(query_id) == [type |-> "query", queryId |-> query_id]

\* options without and with a "parameters" key
NoOptions == <<>>

Parameters(params) == [parameters |-> params]

LinkColumns(url) == [columns |-> <<[displayAs |-> "link", linkUrlTemplate |-> url]>>]

VizDoc(type, name, description, options) ==
    [type |-> type, name |-> name, description |-> description, options |-> options]

Chart == VizDoc("CHART", "Chart", "", <<>>)

ChartWithLink(url) == VizDoc("CHART", "Chart", "", LinkColumns(url))

EditedTable == VizDoc("TABLE", "Table", "edited", <<>>)

QueryDoc(name, options, visualizations) ==
    [name |-> name, is_draft |-> FALSE, options |-> options,
     visualizations |-> visualizations]

Position(row, col) == [position |-> [row |-> row, col |-> col]]

\* a widget document with a visualization, and a text-only one
WidgetDoc(queryName, name, row, col) ==
    [text |-> "", options |-> Position(row, col),
     visualization |-> [name |-> name, queryName |-> queryName]]

TextWidgetDoc(row, col) == [text |-> "note", options |-> Position(row, col)]

DashboardDoc(name, widgets) ==
    [name |-> name, slug |-> Slugify(name), is_draft |-> FALSE, widgets |-> widgets]

\* a visualization as the server holds it
WithId(doc, id) == Put(doc, "id", id)

ServerQuery(id, name, options, visualizations) ==
    [id |-> id, name |-> name, is_draft |-> FALSE, options |-> options,
     visualizations |-> visualizations]

\* a widget as the server returns it
ServerWidget(id, row, col, viz_id, viz_name, query_name) ==
    [id |-> id, text |-> "", options |-> Position(row, col),
     visualization |-> [id |-> viz_id, name |-> viz_name, query |-> [name |-> query_name]]]

ServerTextWidget(id, row, col) == [id |-> id, text |-> "note", options |-> Position(row, col)]

ServerDashboard(id, name, widgets) ==
    [id |-> id, name |-> name, slug |-> Slugify(name), is_draft |-> FALSE,
     widgets |-> widgets]

OneSource == {[id |-> 1, name |-> "main", type |-> "pg"]}

\* what every run starts with, whatever its documents and server
Idle ==
    /\ datasource = <<>>
    /\ saved_queries = <<>>
    /\ queryOrder = <<>>
    /\ saved_dashboards = <<>>
    /\ dashOrder = <<>>
    /\ existing_queries = <<>>
    /\ existing_dashboards = <<>>
    /\ nextId = 20
    /\ stack = <<>>
    /\ qi = 1
    /\ di = 1
    /\ wi = 0
    /\ error = FALSE
    /\ log = <<>>

NoLink ==
    /\ linkOrig = <<>>
    /\ linkUrl = <<>>
    /\ linkPhase = "none"
    /\ linkDashboards = <<>>

\* queries with parameters that reference each other: chains, shared
\* dependencies, cycles, a name that is not saved, a parameter in id form
ParamsOfQa ==
    {NoOptions, Parameters(<<NameRef("qb")>>), Parameters(<<NameRef("qb"), NameRef("qc")>>),
     Parameters(<<NameRef("qc"), TextParam, NameRef("qc")>>), Parameters(<<NameRef("qa")>>)}

ParamsOfQb ==
    {NoOptions, Parameters(<<>>), Parameters(<<NameRef("qc")>>), Parameters(<<NameRef("qa")>>),
     Parameters(<<NameRef("qx")>>), Parameters(<<IdRef(5)>>)}

ParamsOfQc == {NoOptions, Parameters(<<NameRef("qa")>>), Parameters(<<NameRef("qc")>>)}

\* the queries the server has before the push, by name
ServerQueryOf(name) ==
    IF name = "qa"
    THEN ServerQuery(1, "qa", NoOptions, <<DefaultTable(2), WithId(Chart, 3)>>)
    ELSE IF name = "qb" THEN ServerQuery(4, "qb", NoOptions, <<DefaultTable(5)>>)
    ELSE IF name = "qc" THEN ServerQuery(6, "qc", NoOptions, <<DefaultTable(7)>>)
    ELSE ServerQuery(8, name, NoOptions, <<DefaultTable(9), WithId(Chart, 10)>>)

ServerQueryChoices ==
    {<<>>, <<ServerQueryOf("qb")>>,
     <<ServerQueryOf("qz"), ServerQueryOf("qc"), ServerQueryOf("qa"), ServerQueryOf("qb")>>}

VisualizationsOf(name) ==
    IF name = "qa" THEN <<Chart>> ELSE IF name = "qc" THEN <<EditedTable>> ELSE <<>>

InitQueries ==
    \E pa \in ParamsOfQa, pb \in ParamsOfQb, pq \in ParamsOfQc,
       order \in Perms(QNames), server \in ServerQueryChoices :
        LET options == [qa |-> pa, qb |-> pb, qc |-> pq]
        IN  /\ pc = "push"
            /\ datasource_name = <<>>
            /\ datasources = OneSource
            /\ diskQueries = [i \in 1..3 |->
                                QueryDoc(order[i], options[order[i]], VisualizationsOf(order[i]))]
            /\ diskDashboards = <<>>
            /\ srvQueries = server
            /\ srvDashboards = <<>>
            /\ Idle
            /\ NoLink

\* a saved query with visualizations, and dashboards whose widgets name them
\* or fail to: a visualization that is not saved, the Table that fetch drops,
\* a widget without a visualization, a query that is not saved
KnownLink == <<DASHBOARDS, "0", "-", "a", "?", "X">>

OtherLink == <<DASHBOARDS, "0", "-", "b">>

VisualizationChoices ==
    {<<>>, <<Chart>>, <<EditedTable, Chart>>, <<ChartWithLink(KnownLink)>>,
     <<ChartWithLink(OtherLink)>>}

WidgetsOfDa ==
    {<<>>,
     <<WidgetDoc("qa", "Chart", 0, 0)>>,
     <<WidgetDoc("qa", "Chart", 0, 0), WidgetDoc("qa", "Table", 0, 1)>>,
     <<WidgetDoc("qa", "Missing", 0, 0), WidgetDoc("qa", "Chart", 0, 1)>>,
     <<WidgetDoc("qa", "Chart", 0, 0), TextWidgetDoc(1, 0), WidgetDoc("qa", "Chart", 2, 0)>>,
     <<WidgetDoc("qx", "Chart", 0, 0), WidgetDoc("qa", "Chart", 0, 1)>>,
     <<WidgetDoc("qa", "Missing", 0, 0), TextWidgetDoc(1, 0), WidgetDoc("qa", "Chart", 2, 0)>>,
     <<WidgetDoc("qa", "Table", 0, 0)>>}

DashboardDocChoices ==
    {<<DashboardDoc("da", w)>> : w \in WidgetsOfDa}
    \cup {<<DashboardDoc("da", w), DashboardDoc("db", v)>> :
            w \in WidgetsOfDa, v \in {<<>>, <<WidgetDoc("qa", "Chart", 0, 0)>>}}
    \cup {<<DashboardDoc("db", v), DashboardDoc("da", w)>> :
            w \in WidgetsOfDa, v \in {<<>>, <<WidgetDoc("qa", "Chart", 0, 0)>>}}

\* the widgets the server's dashboard da has before the push
PriorWidgetsOfDa ==
    {<<>>,
     <<ServerWidget(11, 0, 0, 3, "Chart", "qa"), ServerWidget(12, 0, 1, 10, "Chart", "qz")>>,
     <<ServerWidget(11, 0, 0, 3, "Chart", "qa"), ServerTextWidget(12, 0, 1)>>}

\* a dashboard of the server that is not saved
OtherDashboard == ServerDashboard(15, "dz", <<ServerWidget(16, 0, 0, 10, "Chart", "qz")>>)

ServerChoices ==
    {[queries |-> <<>>, dashboards |-> <<>>],
     [queries |-> <<ServerQueryOf("qz"), ServerQueryOf("qa")>>,
      dashboards |-> <<OtherDashboard>>]}
    \cup {[queries |-> <<ServerQueryOf("qz"), ServerQueryOf("qa")>>,
           dashboards |-> <<OtherDashboard, ServerDashboard(14, "da", w)>>] :
            w \in PriorWidgetsOfDa}
    \cup {[queries |-> <<ServerQueryOf("qz"), ServerQueryOf("qa")>>,
           dashboards |-> <<ServerDashboard(13, "db",
                                <<ServerWidget(17, 0, 0, 3, "Chart", "qa")>>),
                            ServerDashboard(14, "da", w)>>] :
            w \in PriorWidgetsOfDa}

InitDashboards ==
    \E visualizations \in VisualizationChoices, docs \in DashboardDocChoices,
       server \in ServerChoices :
        /\ pc = "push"
        /\ datasource_name = <<>>
        /\ datasources = OneSource
        /\ diskQueries = <<QueryDoc("qa", NoOptions, visualizations)>>
        /\ diskDashboards = docs
        /\ srvQueries = server.queries
        /\ srvDashboards = server.dashboards
        /\ Idle
        /\ NoLink

\* the ways to select a data source
SourceChoices ==
    {[name |-> <<>>, sources |-> {}],
     [name |-> <<>>, sources |-> OneSource],
     [name |-> <<>>, sources |-> OneSource \cup {[id |-> 2, name |-> "other", type |-> "mysql"]}],
     [name |-> <<"other">>,
      sources |-> OneSource \cup {[id |-> 2, name |-> "other", type |-> "mysql"]}],
     [name |-> <<"absent">>, sources |-> OneSource]}

InitSources ==
    \E choice \in SourceChoices, server \in ServerChoices :
        /\ pc = "push"
        /\ datasource_name = choice.name
        /\ datasources = choice.sources
        /\ diskQueries = <<QueryDoc("qa", NoOptions, <<Chart>>)>>
        /\ diskDashboards = <<DashboardDoc("da", <<WidgetDoc("qa", "Chart", 0, 0)>>)>>
        /\ srvQueries = server.queries
        /\ srvDashboards = server.dashboards
        /\ Idle
        /\ NoLink

\* servers to fetch from: a query with a parameter that names another query
\* by id, the default Table and other visualizations, a dashboard whose
\* widgets the server lists in any order
LinkToDa == <<DASHBOARDS, "1", "4", "-", "a", "?", "X">>

FetchedOptionChoices ==
    {NoOptions, Parameters(<<IdRef(4), TextParam>>), Parameters(<<IdRef(99)>>)}

FetchedShapes ==
    {[visualizations |-> <<DefaultTable(2)>>, widgets |-> w] :
        w \in {<<>>, <<ServerWidget(11, 0, 0, 2, "Table", "qa")>>,
               <<ServerTextWidget(12, 0, 1), ServerWidget(11, 0, 0, 2, "Table", "qa")>>}}
    \cup {[visualizations |-> <<DefaultTable(2), WithId(ChartWithLink(LinkToDa), 3)>>,
           widgets |-> w] :
        w \in {<<ServerWidget(12, 0, 1, 3, "Chart", "qa"),
                 ServerWidget(11, 0, 0, 2, "Table", "qa")>>,
               <<ServerWidget(12, 0, 0, 3, "Chart", "qa")>>,
               <<ServerWidget(11, 0, 0, 3, "Chart", "qa"), ServerTextWidget(12, 0, 1)>>}}
    \cup {[visualizations |-> <<WithId(EditedTable, 2), WithId(Chart, 3)>>,
           widgets |-> <<ServerWidget(11, 1, 0, 2, "Table", "qa"),
                         ServerWidget(12, 0, 1, 3, "Chart", "qa")>>]}

\* documents of an earlier fetch, edited by hand
StaleQueryDocs ==
    <<[name |-> "qa", is_draft |-> TRUE, note |-> "kept",
       options |-> Parameters(<<NameRef("qc")>>), visualizations |-> <<Chart>>]>>

StaleDashboardDocs ==
    <<[name |-> "da", slug |-> <<"b">>, note |-> "kept",
       widgets |-> <<TextWidgetDoc(3, 3)>>]>>

InitFetch ==
    \E options \in FetchedOptionChoices, shape \in FetchedShapes, stale \in BOOLEAN :
        /\ pc = "fetch_queries"
        /\ datasource_name = <<>>
        /\ datasources = OneSource
        /\ diskQueries = IF stale THEN StaleQueryDocs ELSE <<>>
        /\ diskDashboards = IF stale THEN StaleDashboardDocs ELSE <<>>
        /\ srvQueries = <<ServerQuery(1, "qa", options, shape.visualizations),
                          ServerQueryOf("qb")>>
        /\ srvDashboards = <<ServerDashboard(14, "da", shape.widgets)>>
        /\ Idle
        /\ NoLink

----------------------------------------------------------------------------
(* Specification *)

Init == InitQueries \/ InitDashboards \/ InitSources \/ InitFetch

Next ==
    \/ FetchQuery
    \/ FetchQueriesDone
    \/ FetchDashboard
    \/ FetchDone
    \/ RunPush
    \/ RunPushElsewhere
    \/ RunFetchAgain
    \/ PushStart
    \/ CreateMissingDashboard
    \/ LoadQueries
    \/ UploadQueriesCall
    \/ UQ_Enter
    \/ UQ_ParamSkip
    \/ UQ_ParamCall
    \/ UQ_Create
    \/ UQ_Update
    \/ UQ_Viz
    \/ UQ_Return
    \/ UploadQueriesDone
    \/ UD_Begin
    \/ UD_Delete
    \/ UD_DeleteDone
    \/ UD_Add
    \/ UD_AddDone
    \/ UD_Finish

Spec == Init /\ [][Next]_vars

\* push up to the return of upload_queries (push.py:386-407), for the saved
\* queries of InitQueries
NextUpload ==
    \/ PushStart
    \/ LoadQueries
    \/ UploadQueriesCall
    \/ UQ_Enter
    \/ UQ_ParamSkip
    \/ UQ_ParamCall
    \/ UQ_Create
    \/ UQ_Update
    \/ UQ_Viz
    \/ UQ_Return
    \/ UploadQueriesDone

\* the program is sequential and runs on: a run that can take a step takes it
SpecUpload == InitQueries /\ [][NextUpload]_vars /\ WF_vars(NextUpload)

----------------------------------------------------------------------------
(* Link templates through fetch and push *)

\* longest template after the prefix, in characters
MaxLen == 5

Templates ==
    {prefix \o tail : prefix \in {<<>>, <<DASHBOARDS>>},
                      tail \in UNION {[1..k -> TailChars] : k \in 0..MaxLen}}

\* existing_dashboards.values() of the push, as far as line 82 reads them
LinkDashboardChoices ==
    {<<>>,
     <<[id |-> 7, slug |-> <<"a">>]>>,
     <<[id |-> 12, slug |-> <<"a", "-", "a">>], [id |-> 7, slug |-> <<"a">>]>>,
     <<[id |-> 4, slug |-> <<"3">>], [id |-> 30, slug |-> <<"a", "3">>]>>}

InitLink ==
    /\ linkOrig \in Templates
    /\ linkUrl = linkOrig
    /\ linkPhase = "server"
    /\ linkDashboards \in LinkDashboardChoices
    /\ pc = "none"
    /\ datasource_name = <<>>
    /\ datasources = OneSource
    /\ diskQueries = <<>>
    /\ diskDashboards = <<>>
    /\ srvQueries = <<>>
    /\ srvDashboards = <<>>
    /\ Idle

\* fetch.py:125-127 on a column of a visualization
FetchLink ==
    /\ linkPhase = "server"
    /\ linkUrl' = anonymize_link(linkUrl)
    /\ linkPhase' = "disk"
    /\ UNCHANGED <<pushVars, linkOrig, linkDashboards>>

\* push.py:151-154 on the column as fetch saved it
PushLink ==
    /\ linkPhase = "disk"
    /\ linkUrl' = fix_dashboard_url_id(linkUrl, linkDashboards)
    /\ linkPhase' = "pushed"
    /\ UNCHANGED <<pushVars, linkOrig, linkDashboards>>

NextLink == FetchLink \/ PushLink

SpecLink == InitLink /\ [][NextLink]_vars

----------------------------------------------------------------------------
(* Properties: vocabulary *)

\* positions of the history
Events == 1..Len(log)

QueryRequests(op, name) == {i \in Events : IsRequest(log[i], op) /\ log[i].name = name}

CallsOf(name) == {i \in Events : log[i].kind = "call" /\ log[i].name = name}

ReturnsOf(name) == {i \in Events : log[i].kind = "return" /\ log[i].name = name}

\* names of the queries that were called or sent
NamesInLog == {log[i].name : i \in {j \in Events : log[j].kind \in {"call", "return"}}}

\* upload_queries has returned
UploadedAll == pc \in {"update_dashboards", "delete_widgets", "add_widgets", "exit0", "exit1"}

\* update_dashboards has returned and push has ended with its result
PassCompleted == pc \in {"exit0", "exit1"} /\ datasource # <<>>

\* the query-typed parameters of a payload or document, as indices
QueryParams(query_data) ==
    {j \in 1..Len(ParametersOf(query_data)) : ParametersOf(query_data)[j].type = "query"}

\* the metadata document of a query, as the push loaded it
DocOf(name) == diskQueries[DocIndex(diskQueries, name)]

----------------------------------------------------------------------------
(* C1 *)

\* C1: within one push run a saved query is sent to the server once, however
\* often upload_query is called for it: at most one create_query and at most
\* one update_query request carry its name; no such request follows a call
\* that is not the first one; a call made after an earlier call has returned
\* is followed at once by its return; every return for the query carries the
\* same id, the id the update was addressed to; and when upload_queries has
\* returned, exactly one update_query was sent for every saved query.
C1_UploadedOnce ==
    \A name \in NamesInLog :
        /\ Cardinality(QueryRequests("create_query", name)) <= 1
        /\ Cardinality(QueryRequests("update_query", name)) <= 1
        /\ \A c \in CallsOf(name) :
              /\ (\E b \in CallsOf(name) : b < c)
                    => \A i \in Events :
                          i > c /\ log[i].kind = "request"
                              => ~(log[i].op \in {"create_query", "update_query"}
                                   /\ log[i].name = name)
              /\ (\E r \in ReturnsOf(name) : r < c) /\ c < Len(log)
                    => log[c + 1].kind = "return" /\ log[c + 1].name = name
        /\ \A r \in ReturnsOf(name) :
              \E u \in QueryRequests("update_query", name) : u < r /\ log[u].id = log[r].id
        /\ UploadedAll /\ name \in DOMAIN saved_queries
              => Cardinality(QueryRequests("update_query", name)) = 1

\* C1 witness: a query that was called at the top level and as the parameter
\* of two other queries, four times in all, and was created and updated once
C1_Witness ==
    /\ UploadedAll
    /\ \E name \in NamesInLog :
          /\ Cardinality(CallsOf(name)) >= 4
          /\ Cardinality(ReturnsOf(name)) >= 4
          /\ Cardinality(QueryRequests("create_query", name)) = 1
          /\ Cardinality(QueryRequests("update_query", name)) = 1

----------------------------------------------------------------------------
(* C2 *)

\* C2: every create_query and update_query request of a query Q carries, for
\* each query-typed parameter, the id of the query Q2 that the saved document
\* names there: an update_query request for Q2 addressed to that id was sent
\* earlier, and the server holds a query of that id and name.
C2_DependencyFirst ==
    \A i \in Events :
        log[i].kind = "request" /\ log[i].op \in {"create_query", "update_query"}
            => \A j \in QueryParams(log[i].data) :
                  LET param == ParametersOf(log[i].data)[j]
                      saved == ParametersOf(DocOf(log[i].name))[j]
                  IN  /\ HasKey(param, "queryId")
                      /\ HasKey(saved, "queryName")
                      /\ \E k \in QueryRequests("update_query", saved.queryName) :
                            k < i /\ log[k].id = param.queryId
                      /\ \E q \in Range(srvQueries) :
                            q.id = param.queryId /\ q.name = saved.queryName

\* C2 witness: a query that precedes its dependency in the iteration order was
\* created after the dependency, which this run created too
C2_Witness ==
    /\ UploadedAll
    /\ \E i \in Events :
          /\ IsRequest(log[i], "create_query")
          /\ \E j \in QueryParams(log[i].data) :
                LET dependency == ParametersOf(DocOf(log[i].name))[j].queryName
                IN  /\ \E k \in QueryRequests("create_query", dependency) : k < i
                    /\ \E a, b \in 1..Len(queryOrder) :
                          a < b /\ queryOrder[a] = log[i].name /\ queryOrder[b] = dependency

----------------------------------------------------------------------------
(* C3 *)

\* C3: when upload_queries has returned, the server has a query of the name of
\* every saved query, that query has a visualization of the name of every
\* saved visualization, and every query-typed parameter of a saved query, in
\* memory and as the server holds it, has a queryId that is the id of a query
\* of the server, and no queryName.
C3_AllUploaded ==
    UploadedAll =>
        \A name \in DOMAIN saved_queries :
            /\ \E q \in Range(srvQueries) :
                  /\ q.name = name
                  /\ q.id = saved_queries[name].uploaded_id
                  /\ \A v \in Range(saved_queries[name].visualizations) :
                        \E r \in Range(q.visualizations) : r.name = v.name /\ r.id = v.uploaded_id
                  /\ q.options = saved_queries[name].options
            /\ \A j \in QueryParams(saved_queries[name]) :
                  LET param == ParametersOf(saved_queries[name])[j]
                  IN  /\ HasKey(param, "queryId")
                      /\ ~HasKey(param, "queryName")
                      /\ \E q \in Range(srvQueries) : q.id = param.queryId

\* C3 witness: the pass is over for three saved queries with parameters and
\* visualizations, some created and some updated
C3_Witness ==
    /\ UploadedAll
    /\ Cardinality(DOMAIN saved_queries) = 3
    /\ \E name \in DOMAIN saved_queries : Cardinality(QueryParams(saved_queries[name])) = 2
    /\ \E i, j \in Events :
          IsRequest(log[i], "create_visualization") /\ IsRequest(log[j], "update_visualization")

----------------------------------------------------------------------------
(* C4 *)

\* C4: a query-typed parameter of a metadata document that fetch writes has a
\* queryName and no queryId, and a query-typed parameter of a create_query or
\* update_query request has a queryId and no queryName.
C4_NameOnDiskIdOnWire ==
    \A i \in Events :
        /\ log[i].kind = "write" /\ log[i].file = "query"
              => \A j \in QueryParams(log[i].data) :
                    /\ HasKey(ParametersOf(log[i].data)[j], "queryName")
                    /\ ~HasKey(ParametersOf(log[i].data)[j], "queryId")
        /\ log[i].kind = "request" /\ log[i].op \in {"create_query", "update_query"}
              => \A j \in QueryParams(log[i].data) :
                    /\ HasKey(ParametersOf(log[i].data)[j], "queryId")
                    /\ ~HasKey(ParametersOf(log[i].data)[j], "queryName")

\* C4 witness: fetch wrote a document with a query-typed parameter and push
\* then sent that query with the parameter
C4_Witness ==
    \E i, k \in Events :
        /\ i < k
        /\ log[i].kind = "write" /\ log[i].file = "query"
        /\ QueryParams(log[i].data) # {}
        /\ IsRequest(log[k], "create_query")
        /\ log[k].name = log[i].name
        /\ QueryParams(log[k].data) # {}

----------------------------------------------------------------------------
(* Properties of update_dashboards: vocabulary *)

\* update_dashboards is running or has returned
InDashboards == pc \in {"update_dashboards", "delete_widgets", "add_widgets", "exit0", "exit1"}

\* the saved dashboards update_dashboards has finished with
Done(name) ==
    /\ InDashboards
    /\ \E k \in 1..Len(dashOrder) : dashOrder[k] = name /\ k < di

DashboardRequests(op, name) == {i \in Events : IsRequest(log[i], op) /\ log[i].name = name}

\* the create_widget requests for a dashboard, in the order they were sent
CreatedWidgets(name) == SelectSeq(log, LAMBDA e : IsRequest(e, "create_widget") /\ e.name = name)

SavedWidgets(name) == saved_dashboards[name].widgets

\* the widgets the server's dashboard had when push read it
PriorWidgets(name) == ExistingDashboard(name).widgets

\* the saved query has a visualization of the name the widget gives
Resolves(w) ==
    /\ HasKey(w, "visualization")
    /\ w.visualization.queryName \in DOMAIN saved_queries
    /\ \E v \in Range(saved_queries[w.visualization.queryName].visualizations) :
          v.name = w.visualization.name

\* the widget names a saved query that has no visualization of that name
Unresolved(w) ==
    /\ HasKey(w, "visualization")
    /\ w.visualization.queryName \in DOMAIN saved_queries
    /\ \A v \in Range(saved_queries[w.visualization.queryName].visualizations) :
          v.name # w.visualization.name

\* the request creates the saved widget w
CreatesWidget(request, w) ==
    /\ Resolves(w)
    /\ request.data.text = w.text
    /\ request.data.options = w.options
    /\ \E v \in Range(saved_queries[w.visualization.queryName].visualizations) :
          /\ v.name = w.visualization.name
          /\ HasKey(v, "uploaded_id")
          /\ v.uploaded_id = request.data.visualization_id

\* a widget of the server in the form of a saved widget
AsSaved(w) ==
    IF HasKey(w, "visualization")
    THEN [text |-> w.text, options |-> w.options,
          visualization |-> [name |-> w.visualization.name,
                             queryName |-> w.visualization.query.name]]
    ELSE [text |-> w.text, options |-> w.options]

\* the widgets the server's dashboard of this name holds
RemoteWidgets(name) == srvDashboards[FirstNamed(srvDashboards, name)].widgets

\* every widget the dashboard had was deleted before any widget was created on it
DeletedBeforeCreated(name) ==
    \A c \in DashboardRequests("create_widget", name) :
        \A w \in Range(PriorWidgets(name)) :
            \E d \in DashboardRequests("delete_widget", name) : d < c /\ log[d].id = w.id

\* the server's dashboard holds the widgets ws, in this order, and no prior one
RemoteHoldsExactly(name, ws) ==
    /\ Len(RemoteWidgets(name)) = Len(ws)
    /\ \A k \in 1..Len(ws) : AsSaved(RemoteWidgets(name)[k]) = ws[k]
    /\ \A r \in Range(RemoteWidgets(name)) : \A w \in Range(PriorWidgets(name)) : r.id # w.id

\* the saved widgets already passed by the loop of line 315, as <<name, k>>
Processed ==
    {p \in UNION {{<<dashOrder[d], k>> : k \in 1..Len(SavedWidgets(dashOrder[d]))}
                  : d \in 1..Len(dashOrder)} :
        \E d \in 1..Len(dashOrder) :
            /\ dashOrder[d] = p[1]
            /\ \/ d < di
               \/ d = di /\ pc = "add_widgets" /\ p[2] < wi}

\* all saved widgets, as <<name, k>>
AllWidgets ==
    UNION {{<<dashOrder[d], k>> : k \in 1..Len(SavedWidgets(dashOrder[d]))}
           : d \in 1..Len(dashOrder)}

WidgetAt(p) == SavedWidgets(p[1])[p[2]]

----------------------------------------------------------------------------
(* C5 *)

\* C5 as stated: for every saved dashboard, every prior widget is deleted
\* before any widget is created; when update_dashboards has finished with the
\* dashboard there is one create_widget request per saved widget, the k-th
\* creating the k-th saved widget, and the server's dashboard holds exactly
\* the saved widgets and none of the prior ones.
C5_ExactlyTheSavedWidgets ==
    InDashboards =>
        \A name \in Range(dashOrder) :
            /\ DeletedBeforeCreated(name)
            /\ Done(name) =>
                  /\ Len(CreatedWidgets(name)) = Len(SavedWidgets(name))
                  /\ \A k \in 1..Len(SavedWidgets(name)) :
                        CreatesWidget(CreatedWidgets(name)[k], SavedWidgets(name)[k])
                  /\ RemoteHoldsExactly(name, SavedWidgets(name))

\* C5, amended: for every saved dashboard, every prior widget is deleted
\* before any widget is created; the create_widget requests are, in the saved
\* order, for the saved widgets whose visualization resolves, and a saved
\* widget whose visualization does not resolve gets none; when
\* update_dashboards has finished with the dashboard there is one request for
\* each resolving widget, and the server's dashboard holds exactly those
\* widgets and none of the prior ones.
C5_TheResolvedSavedWidgets ==
    (InDashboards \/ pc = "crashed") /\ datasource # <<>> =>
        \A name \in Range(dashOrder) :
            LET resolved == SelectSeq(SavedWidgets(name), Resolves)
                created  == CreatedWidgets(name)
            IN  /\ DeletedBeforeCreated(name)
                /\ Len(created) <= Len(resolved)
                /\ \A k \in 1..Len(created) : CreatesWidget(created[k], resolved[k])
                /\ Done(name) =>
                      /\ Len(created) = Len(resolved)
                      /\ RemoteHoldsExactly(name, resolved)

\* C5 witness: a dashboard that had two widgets and has two saved widgets,
\* both resolving: two deletions, then two creations, and the pass is over
C5_Witness ==
    /\ pc = "exit0"
    /\ \E name \in Range(dashOrder) :
          /\ Len(PriorWidgets(name)) = 2
          /\ Len(SavedWidgets(name)) = 2
          /\ Cardinality(DashboardRequests("delete_widget", name)) = 2
          /\ Len(CreatedWidgets(name)) = 2
          /\ CreatedWidgets(name)[1].data.options = Position(0, 0)
          /\ CreatedWidgets(name)[2].data.options = Position(0, 1)

----------------------------------------------------------------------------
(* C6 *)

\* the widget names a visualization, and no saved query of the name it gives
\* has a visualization of the name it gives
Unresolvable(w) == HasKey(w, "visualization") /\ ~Resolves(w)

\* C6: when a push run that selected a data source has ended and exactly one
\* saved widget names a (queryName, visualizationName) pair that no saved
\* query's visualization answers to, no widget was created for that one,
\* every other saved widget of every saved dashboard was created, and every
\* saved dashboard was sent its settings.
C6_OthersStillCreated ==
    /\ pc \in {"exit0", "exit1", "crashed"}
    /\ datasource # <<>>
    /\ Cardinality({p \in AllWidgets : Unresolvable(WidgetAt(p))}) = 1
    => /\ \A p \in AllWidgets :
             LET made == {i \in DashboardRequests("create_widget", p[1]) :
                             /\ log[i].data.options = WidgetAt(p).options
                             /\ log[i].data.text = WidgetAt(p).text}
             IN  IF Unresolvable(WidgetAt(p)) THEN made = {} ELSE Cardinality(made) = 1
       /\ \A name \in Range(dashOrder) : DashboardRequests("update_dashboard", name) # {}

----------------------------------------------------------------------------
(* C7 *)

\* C7: a push run that selected a data source and completed the pass over the
\* dashboards ends with status 1 if and only if a saved widget names a
\* visualization its saved query does not have, and with 0 otherwise; the
\* status is produced when every saved dashboard has been processed; and
\* during the pass the failure flag is set exactly when a widget already
\* processed failed to resolve, so a later widget that resolves never clears it.
C7_StatusIffUnresolved ==
    /\ PassCompleted =>
          /\ di > Len(dashOrder)
          /\ pc = "exit1" <=> \E p \in AllWidgets : Unresolved(WidgetAt(p))
          /\ pc = "exit0" <=> \A p \in AllWidgets : Resolves(WidgetAt(p))
    /\ pc \in {"update_dashboards", "delete_widgets", "add_widgets"} =>
          (error <=> \E p \in Processed : Unresolved(WidgetAt(p)))

\* C7 witness: a run ended with status 1 in which a widget was created after
\* an earlier widget of the same dashboard had failed to resolve
C7_Witness ==
    /\ pc = "exit1"
    /\ \E p, q \in AllWidgets :
          /\ p[1] = q[1]
          /\ p[2] < q[2]
          /\ Unresolved(WidgetAt(p))
          /\ \E i \in DashboardRequests("create_widget", q[1]) :
                log[i].data.options = WidgetAt(q).options

----------------------------------------------------------------------------
(* C8 *)

\* the widget names the visualization "Table" of a saved query whose metadata
\* has no visualization of that name
NamesDroppedTable(w) == Unresolved(w) /\ w.visualization.name = "Table"

WidgetRequests(p) ==
    {i \in DashboardRequests("create_widget", p[1]) :
        log[i].data.options = WidgetAt(p).options}

----------------------------------------------------------------------------
(* Properties of the link templates: vocabulary *)

\* url is /dashboards/<digits>-<slug> followed by rest, with the "-" at
\* position dash and the slug ending before position stop
HasIdAndSlug(url, dash, stop) ==
    /\ Len(url) >= 1 /\ url[1] = DASHBOARDS
    /\ 2 < dash /\ dash + 1 < stop /\ stop <= Len(url) + 1
    /\ url[dash] = "-"
    /\ \A i \in 2..(dash - 1) : IsDigit(url[i])
    /\ \A i \in (dash + 1)..(stop - 1) : IsSlugChar(url[i])

\* the ways to read url as /dashboards/<id>-<slug>, the slug reaching the end
PlainForms(url) ==
    {dash \in 1..Len(url) : HasIdAndSlug(url, dash, Len(url) + 1)}

\* the ways to read url as /dashboards/<id>-<slug>?<query string>, the query
\* string not empty: <<position of "-", position of "?">>
QueryForms(url) ==
    {f \in (1..Len(url)) \X (1..Len(url)) :
        /\ HasIdAndSlug(url, f[1], f[2])
        /\ url[f[2]] = "?"
        /\ f[2] < Len(url)}

\* /dashboards/<id> followed by what url has from position dash on
LinkWithId(id, url, dash) == <<DASHBOARDS>> \o id \o SubSeq(url, dash, Len(url))

----------------------------------------------------------------------------
(* C9 *)

\* C9: for every link template /dashboards/<numeric id>-<slug>, with or
\* without a trailing ?<query string>, what fetch saves is the template with
\* the numeric id replaced by 0 and the slug and the query string unchanged.
C9_FetchReplacesId ==
    linkPhase = "disk" =>
        /\ \A dash \in PlainForms(linkOrig) : linkUrl = LinkWithId(<<"0">>, linkOrig, dash)
        /\ \A f \in QueryForms(linkOrig) : linkUrl = LinkWithId(<<"0">>, linkOrig, f[1])

----------------------------------------------------------------------------
(* C10 *)

\* C10: for every template /dashboards/<i>-<s>?<q> with a query string q that
\* is not empty, what fetch saves is /dashboards/0-<s>?<q>, and what push
\* makes of that, when a dashboard of the server has the slug s and the id n,
\* is /dashboards/<n>-<s>?<q>.
C10_LinkRoundTrip ==
    \A f \in QueryForms(linkOrig) :
        /\ linkPhase = "disk" => linkUrl = LinkWithId(<<"0">>, linkOrig, f[1])
        /\ linkPhase = "pushed" =>
              \A d \in Range(linkDashboards) :
                  d.slug = SubSeq(linkOrig, f[1] + 1, f[2] - 1)
                      => linkUrl = LinkWithId(ToDigits(d.id), linkOrig, f[1])

\* C10 witness: /dashboards/3-a?X was fetched and pushed to a server whose
\* dashboard of slug a has the id 7
C10_Witness ==
    /\ linkPhase = "pushed"
    /\ linkOrig = <<DASHBOARDS, "3", "-", "a", "?", "X">>
    /\ linkUrl = <<DASHBOARDS, "7", "-", "a", "?", "X">>
    /\ \E d \in Range(linkDashboards) : d.id = 7 /\ d.slug = <<"a">>

----------------------------------------------------------------------------
(* C11 *)

\* the link templates of a visualization document
LinkTemplates(visualization) ==
    IF HasKey(visualization.options, "columns")
    THEN {c.linkUrlTemplate : c \in {d \in Range(visualization.options.columns) :
                                        HasKey(d, "displayAs") /\ d.displayAs = "link"}}
    ELSE {}

\* url is /dashboards/<id>-<slug>, with or without a query string, and no
\* dashboard push knows of has that slug
UnknownSlug(url) ==
    \/ \E dash \in PlainForms(url) :
          \A d \in Range(existing_dashboards) : d.slug # SubSeq(url, dash + 1, Len(url))
    \/ \E f \in QueryForms(url) :
          \A d \in Range(existing_dashboards) : d.slug # SubSeq(url, f[1] + 1, f[2] - 1)

\* the saved visualizations with a link template of an unknown slug, as they
\* are on disk
DanglingLinks ==
    UNION {{v \in Range(doc.visualizations) : \E url \in LinkTemplates(v) : UnknownSlug(url)}
           : doc \in Range(diskQueries)}

\* C11: in a push run where a saved visualization has a link template whose
\* slug no remote dashboard has, the visualization is uploaded with the
\* template unchanged once upload_queries has returned, and a run that
\* completes the pass over the dashboards ends with a status that is not 0.
C11_UnknownSlugReported ==
    UploadedAll /\ DanglingLinks # {} =>
        /\ \A v \in DanglingLinks :
              \E i \in Events :
                  /\ log[i].kind = "request"
                  /\ log[i].op \in {"create_visualization", "update_visualization"}
                  /\ log[i].name = v.name
                  /\ log[i].data.options = v.options
        /\ PassCompleted => pc = "exit1"

----------------------------------------------------------------------------
(* C12 *)

\* the documents written for a file, in the order they were written
WritesOf(file, name) ==
    SelectSeq(log, LAMBDA e : e.kind = "write" /\ e.file = file /\ e.name = name)

WrittenFiles == {<<log[i].file, log[i].name>> : i \in {j \in Events : log[j].kind = "write"}}

\* C12: when a fetch, a push of what it wrote to the same server and a second
\* fetch have run, the second fetch has written every metadata document and
\* every dashboard document the first fetch wrote, with the same content.
C12_FetchPushFetch ==
    pc = "refetched" =>
        \A f \in WrittenFiles :
            /\ Len(WritesOf(f[1], f[2])) = 2
            /\ WritesOf(f[1], f[2])[1].data = WritesOf(f[1], f[2])[2].data

----------------------------------------------------------------------------
(* C13 *)

SavedNames == {doc.name : doc \in Range(diskQueries)}

\* the saved queries the document of a query names in its query-typed parameters
Refs(name) ==
    IF name \in SavedNames
    THEN {p.queryName : p \in {q \in Range(ParametersOf(DocOf(name))) :
                                   q.type = "query" /\ HasKey(q, "queryName")}}
    ELSE {}

\* every query-typed parameter names a saved query
ReferencesSaved ==
    \A name \in SavedNames :
        /\ \A p \in Range(ParametersOf(DocOf(name))) :
              p.type = "query" => HasKey(p, "queryName")
        /\ Refs(name) \subseteq SavedNames

\* the queries reached from the set S in at most k steps along the parameters
RECURSIVE ReachedFrom(_, _)
ReachedFrom(S, k) ==
    IF k = 0 THEN S ELSE ReachedFrom(S \cup UNION {Refs(name) : name \in S}, k - 1)

\* the query depends on itself, directly or through other queries
OnCycle(name) == name \in ReachedFrom(Refs(name), Cardinality(SavedNames))

Acyclic == \A name \in SavedNames : ~OnCycle(name)

\* C13: when the saved queries' parameters name saved queries only and no
\* query depends on itself, directly or through others, upload_queries, once
\* called, returns.
C13_AcyclicTerminates ==
    (pc = "upload_queries" /\ ReferencesSaved /\ Acyclic) ~> (pc = "update_dashboards")

\* C13 witness: upload_queries has returned for three queries of which one is
\* a parameter of the two others and one of these a parameter of the other: the
\* shared one was called three times
C13_Witness ==
    /\ pc = "update_dashboards"
    /\ ReferencesSaved /\ Acyclic
    /\ \E a, b, c \in SavedNames :
          /\ {a, b, c} = SavedNames /\ Cardinality({a, b, c}) = 3
          /\ Refs(a) = {b, c}
          /\ Refs(b) = {c}
          /\ Cardinality(CallsOf(c)) = 3

----------------------------------------------------------------------------
(* C14 *)

\* C14: a saved query that depends on itself through query-typed parameters,
\* directly or through other saved queries, is never uploaded: no call of
\* upload_query for it returns, no create_query or update_query request is
\* sent for it, and a push run whose saved queries have such a cycle never
\* gets past upload_queries.
C14_CycleNeverReturns ==
    \A name \in SavedNames :
        OnCycle(name) =>
            /\ ReturnsOf(name) = {}
            /\ QueryRequests("create_query", name) = {}
            /\ QueryRequests("update_query", name) = {}
            /\ ~UploadedAll

\* C14 witness: the calls nested up to the depth at which the interpreter
\* gives up, all of them for queries on a cycle, and the run has ended with
\* the exception
C14_Witness ==
    /\ pc = "crashed"
    /\ Len(stack) = RecursionLimit
    /\ \A i \in 1..Len(stack) : OnCycle(stack[i].query_name)
    /\ \E name \in SavedNames : OnCycle(name) /\ Cardinality(CallsOf(name)) >= 2

----------------------------------------------------------------------------
(* C15 *)

\* no data source can be selected: no name is given and the server does not
\* have exactly one data source, or no data source has the name given
SelectionFails ==
    \/ datasource_name = <<>> /\ Cardinality(datasources) # 1
    \/ datasource_name # <<>> /\ \A d \in datasources : d.name # datasource_name[1]

\* C15: when the selection of the data source fails, push sends no request
\* that creates, updates or deletes anything, selects no data source, and
\* ends at once, with status 1 or with the exception.
C15_NoSourceNoRequest ==
    SelectionFails =>
        /\ \A i \in Events : log[i].kind # "request"
        /\ datasource = <<>>
        /\ pc \in {"push", "exit1", "crashed"}

\* C15 witness: the server has two data sources and no name was given; push
\* has ended with status 1 and has sent nothing
C15_Witness ==
    /\ pc = "exit1"
    /\ datasource_name = <<>>
    /\ Cardinality(datasources) = 2
    /\ log = <<>>
    /\ srvDashboards # <<>>

----------------------------------------------------------------------------
(* C16 *)

\* the position of a is not after the position of b, rows first
NotAfter(a, b) ==
    \/ a.options.position.row < b.options.position.row
    \/ /\ a.options.position.row = b.options.position.row
       /\ a.options.position.col <= b.options.position.col

InPositionOrder(widgets) ==
    \A i \in 1..Len(widgets), j \in 1..Len(widgets) : i < j => NotAfter(widgets[i], widgets[j])

DashboardWrites == {i \in Events : log[i].kind = "write" /\ log[i].file = "dashboard"}

\* C16: every dashboard document that fetch writes lists its widgets by row
\* and then by column, whatever the order of the server's list and whatever
\* the document held before; so does every dashboard document on disk once
\* a fetch has ended.
C16_WidgetsInPositionOrder ==
    /\ \A i \in DashboardWrites : InPositionOrder(log[i].data.widgets)
    /\ pc \in {"fetched", "refetched"} =>
           \A k \in 1..Len(diskDashboards) : InPositionOrder(diskDashboards[k].widgets)

\* C16 witness: the server listed two widgets of one row with the later
\* column first, the document on disk held another widget, and fetch wrote
\* the two widgets in the order of their columns
C16_Witness ==
    \E i \in DashboardWrites :
        /\ HasKey(log[i].data, "note")
        /\ Len(log[i].data.widgets) = 2
        /\ \E k \in 1..Len(srvDashboards) :
               /\ srvDashboards[k].name = log[i].name
               /\ Len(srvDashboards[k].widgets) = 2
               /\ ~NotAfter(srvDashboards[k].widgets[1], srvDashboards[k].widgets[2])
        /\ log[i].data.widgets[1].options.position.col
               < log[i].data.widgets[2].options.position.col

----------------------------------------------------------------------------
(* C17 *)

IsVizRequest(e) == IsRequest(e, "create_visualization") \/ IsRequest(e, "update_visualization")

VizRequests == {i \in Events : IsVizRequest(log[i])}

\* the visualizations with this name of the server's query with this id
RemoteVizNamed(queries, query_id, name) ==
    {v \in UNION {Range(queries[k].visualizations) :
                     k \in {n \in 1..Len(queries) : queries[n].id = query_id}} :
        v.name = name}

\* request j uploaded the visualization that the saved widget w names: it
\* carries the name of the visualization and the id of the query that an
\* earlier update request of this run addressed under the widget's queryName
UploadsVizOf(j, w) ==
    /\ IsVizRequest(log[j])
    /\ log[j].name = w.visualization.name
    /\ \E q \in 1..(j - 1) :
          /\ IsRequest(log[q], "update_query")
          /\ log[q].name = w.visualization.queryName
          /\ log[q].id = log[j].data.query_id

\* the widget of request i is a saved widget of its dashboard, and its
\* visualization id is the id an earlier request that uploaded the
\* widget's visualization was answered with
WidgetAfterItsViz(i) ==
    \E w \in Range(saved_dashboards[log[i].name].widgets) :
        /\ HasKey(w, "visualization")
        /\ w.options = log[i].data.options
        /\ \E j \in 1..(i - 1) :
              /\ UploadsVizOf(j, w)
              /\ log[j].id = log[i].data.visualization_id

C17_WidgetsUseUploadedIds ==
    \A i \in Events : IsRequest(log[i], "create_widget") => WidgetAfterItsViz(i)

\* a step that sends a visualization: it is a create exactly when the
\* server's query has no visualization of the name, an update is addressed
\* to the server's visualization of the name, and the id it is answered with
\* is the id of the visualization of that name the server then has
C17_CreateOrUpdate ==
    (Len(log') = Len(log) + 1 /\ IsVizRequest(log'[Len(log')])) =>
        LET e      == log'[Len(log')]
            before == RemoteVizNamed(srvQueries, e.data.query_id, e.name)
            after  == RemoteVizNamed(srvQueries', e.data.query_id, e.name)
        IN  /\ (e.op = "create_visualization") <=> (before = {})
            /\ e.op = "update_visualization" => \E v \in before : v.id = e.id
            /\ \E v \in after : v.id = e.id

\* C17: every widget push creates carries the id that the create or update
\* of the saved visualization with the widget's query name and visualization
\* name was answered with earlier in the run; a visualization is created
\* when the server's query has none of its name and updated otherwise.
C17_WidgetVisualizationIds == []C17_WidgetsUseUploadedIds /\ [][C17_CreateOrUpdate]_vars

\* C17 witness: push has created one widget for a visualization it created
\* and one widget for a visualization it updated
C17_Witness ==
    \E i \in Events, k \in Events :
        /\ IsRequest(log[i], "create_widget")
        /\ IsRequest(log[k], "create_widget")
        /\ \E j \in 1..(i - 1) :
              /\ IsRequest(log[j], "create_visualization")
              /\ log[j].id = log[i].data.visualization_id
        /\ \E j \in 1..(k - 1) :
              /\ IsRequest(log[j], "update_visualization")
              /\ log[j].id = log[k].data.visualization_id

----------------------------------------------------------------------------
(* C18 *)

\* the server's queries of this name
RemoteQueriesNamed(queries, name) ==
    {n \in 1..Len(queries) : queries[n].name = name}

\* a step that sends a create of a query: the server has no query of the
\* name, and afterwards has one with the id of the answer; a step that sends
\* an update of a query: it is addressed to the id of a query of the name
\* that the server has
C18_CreateOrUpdateStep ==
    (Len(log') = Len(log) + 1 /\ log'[Len(log')].kind = "request") =>
        LET e == log'[Len(log')]
        IN  /\ e.op = "create_query" =>
                  /\ RemoteQueriesNamed(srvQueries, e.name) = {}
                  /\ \E n \in RemoteQueriesNamed(srvQueries', e.name) : srvQueries'[n].id = e.id
            /\ e.op = "update_query" =>
                  \E n \in RemoteQueriesNamed(srvQueries, e.name) : srvQueries[n].id = e.id

\* for every query whose upload returned: one update, addressed to the id
\* that is returned; at most one create, and then the update is the next
\* request and is addressed to the id the create was answered with; and
\* whatever follows a create is the update of the created query
C18_CreateThenUpdate ==
    /\ \A name \in NamesInLog :
        \A r \in ReturnsOf(name) :
            /\ \E u \in QueryRequests("update_query", name) :
                  /\ u < r
                  /\ log[u].id = log[r].id
                  /\ QueryRequests("update_query", name) = {u}
                  /\ \A c \in QueryRequests("create_query", name) :
                        /\ u = c + 1
                        /\ log[c].id = log[u].id
            /\ Cardinality(QueryRequests("create_query", name)) <= 1
    /\ \A c \in Events :
           IsRequest(log[c], "create_query") /\ c < Len(log) =>
               /\ IsRequest(log[c + 1], "update_query")
               /\ log[c + 1].name = log[c].name
               /\ log[c + 1].id = log[c].id

\* C18: upload_query creates a query exactly when the server has no query
\* of its name at that moment, and always updates it afterwards, directly
\* after a create too, under the id of the server's query of that name.
C18_CreateIffAbsent == []C18_CreateThenUpdate /\ [][C18_CreateOrUpdateStep]_vars

\* C18 witness: in one run a query that the server did not have was created
\* and then updated, and a query that the server had was only updated
C18_Witness ==
    \E a \in NamesInLog, b \in NamesInLog :
        /\ ReturnsOf(a) # {} /\ ReturnsOf(b) # {}
        /\ QueryRequests("create_query", a) # {}
        /\ QueryRequests("update_query", a) # {}
        /\ QueryRequests("create_query", b) = {}
        /\ QueryRequests("update_query", b) # {}

----------------------------------------------------------------------------
(* C19 *)

\* create_missing_dashboards has finished with the saved dashboard
Settled(name) ==
    /\ datasource # <<>>
    /\ name \in DOMAIN saved_dashboards
    /\ \/ pc \notin {"push", "create_missing_dashboards"}
       \/ pc = "create_missing_dashboards"
          /\ \E k \in 1..Len(dashOrder) : dashOrder[k] = name /\ k < di

\* the server's dashboards of this name
RemoteDashboardsNamed(dashboards, name) ==
    {n \in 1..Len(dashboards) : dashboards[n].name = name}

\* one settings update; at most one create, directly before the update and
\* answered with the id the update is addressed to; every deletion and
\* creation of a widget of the dashboard after the update
C19_SettingsFirst ==
    \A name \in DOMAIN saved_dashboards :
        Settled(name) =>
            /\ Cardinality(DashboardRequests("create_dashboard", name)) <= 1
            /\ \E u \in DashboardRequests("update_dashboard", name) :
                  /\ DashboardRequests("update_dashboard", name) = {u}
                  /\ log[u].data.is_draft = saved_dashboards[name].is_draft
                  /\ \A c \in DashboardRequests("create_dashboard", name) :
                        u = c + 1 /\ log[c].id = log[u].id
                  /\ \A i \in DashboardRequests("delete_widget", name)
                              \cup DashboardRequests("create_widget", name) : u < i

\* the requests a step sends
Sent == {log'[i] : i \in (Len(log) + 1)..Len(log')}

\* a step that sends a settings update: it sends a create of the dashboard
\* too exactly when the server has no dashboard of the name, and the update
\* is addressed to the id of the server's dashboard of the name
C19_CreateOnlyWhenMissing ==
    Len(log') > Len(log) =>
        \A e \in Sent :
            /\ IsRequest(e, "create_dashboard") =>
                  /\ RemoteDashboardsNamed(srvDashboards, e.name) = {}
                  /\ \E u \in Sent : IsRequest(u, "update_dashboard") /\ u.name = e.name
            /\ IsRequest(e, "update_dashboard") =>
                  /\ \E n \in RemoteDashboardsNamed(srvDashboards', e.name) :
                        srvDashboards'[n].id = e.id
                  /\ RemoteDashboardsNamed(srvDashboards, e.name) = {} =>
                        \E c \in Sent : IsRequest(c, "create_dashboard") /\ c.name = e.name

\* C19: for every saved dashboard push sends a create only when the server
\* has no dashboard of its name, then exactly one settings update, both
\* before any deletion or creation of a widget of that dashboard; the
\* update is sent also in runs that later fail to resolve a widget.
C19_DashboardBeforeWidgets == []C19_SettingsFirst /\ [][C19_CreateOnlyWhenMissing]_vars

\* C19 witness: a run that ended with status 1 because a widget did not
\* resolve; it had created and updated the dashboard and created another
\* widget on it afterwards
C19_Witness ==
    /\ pc = "exit1"
    /\ error
    /\ \E name \in DOMAIN saved_dashboards :
          /\ DashboardRequests("create_dashboard", name) # {}
          /\ DashboardRequests("update_dashboard", name) # {}
          /\ DashboardRequests("create_widget", name) # {}

----------------------------------------------------------------------------
(* C20 *)

\* the document that fetch loads before it writes the file of event e
DocBefore(e) ==
    IF e.file = "query" THEN LoadDoc(diskQueries, e.name) ELSE LoadDoc(diskDashboards, e.name)

AllowList(e) ==
    IF e.file = "query" THEN Range(QUERY_META_FIELDS) ELSE Range(DASHBOARD_FIELDS)

ListKey(e) == IF e.file = "query" THEN "visualizations" ELSE "widgets"

\* what the step that writes e did to the document it loaded: the keys
\* outside the allow-list and the list are kept with their values and no
\* such key is added; an allow-listed field that is assigned had no value
\* or another value; one that is not assigned is as it was
MergedOnChange(before, e) ==
    /\ \A k \in DOMAIN before \ (AllowList(e) \cup {ListKey(e)}) :
          HasKey(e.data, k) /\ e.data[k] = before[k]
    /\ DOMAIN e.data \subseteq DOMAIN before \cup AllowList(e) \cup {ListKey(e)}
    /\ \A f \in AllowList(e) :
          IF f \in e.assigned
          THEN HasKey(e.data, f) /\ (HasKey(before, f) => before[f] # e.data[f])
          ELSE IF HasKey(before, f)
               THEN HasKey(e.data, f) /\ e.data[f] = before[f]
               ELSE ~HasKey(e.data, f)

\* a step that writes a document merges on change, and the file then holds
\* what was written
C20_WriteStep ==
    (Len(log') = Len(log) + 1 /\ log'[Len(log')].kind = "write") =>
        LET e == log'[Len(log')]
        IN  /\ MergedOnChange(DocBefore(e), e)
            /\ IF e.file = "query" THEN LoadDoc(diskQueries', e.name) = e.data
               ELSE LoadDoc(diskDashboards', e.name) = e.data

\* a step of fetch at an entity that has no document on disk writes the
\* document; for a query, unless a parameter names an id the server has no
\* query for
C20_MissingIsEmpty ==
    /\ (/\ pc = "fetch_dashboards" /\ di <= Len(srvDashboards)
        /\ LoadDoc(diskDashboards, srvDashboards[di].name) = <<>>
        /\ di' = di + 1)
           => pc' # "crashed" /\ Len(log') = Len(log) + 1
    /\ (/\ pc = "fetch_queries" /\ qi <= Len(srvQueries)
        /\ LoadDoc(diskQueries, srvQueries[qi].name) = <<>>
        /\ ~ParamKeyError(srvQueries[qi], srvQueries)
        /\ vars' # vars)
           => pc' # "crashed" /\ Len(log') = Len(log) + 1

\* C20: a fetch keeps every key of an existing document that is outside the
\* allow-list and is not the list of visualizations or widgets, assigns an
\* allow-listed field only when the server's value is not the stored one,
\* and takes a missing document for an empty one without failing.
C20_MergeOnChange == [][C20_WriteStep /\ C20_MissingIsEmpty]_vars

\* C20 witness: fetch has written a dashboard document over one of an
\* earlier fetch: the key that is not allow-listed is kept, the slug, which
\* differed, was assigned, and the name, which was the same, was not; the
\* query the server has besides had no document and got one
C20_Witness ==
    \E i \in DashboardWrites, k \in Events :
        /\ HasKey(log[i].data, "note")
        /\ log[i].data.note = "kept"
        /\ "slug" \in log[i].assigned
        /\ "name" \notin log[i].assigned
        /\ log[k].kind = "write" /\ log[k].file = "query" /\ log[k].name = "qb"
        /\ log[k].assigned = Range(QUERY_META_FIELDS)
        /\ ~HasKey(log[k].data, "note")

----------------------------------------------------------------------------
(* C21 *)

\* a push run that selected a data source has ended, with a status or with
\* an exception
EndedPush == pc \in {"exit0", "exit1", "crashed"} /\ datasource # <<>>

\* upload_query has uploaded every saved query, and every saved widget that
\* names a visualization names it of a saved query
QueriesUploadedAndNamed ==
    /\ DOMAIN saved_queries # {}
    /\ \A name \in DOMAIN saved_queries : HasKey(saved_queries[name], "uploaded_id")
    /\ \A p \in AllWidgets :
          HasKey(WidgetAt(p), "visualization")
              => WidgetAt(p).visualization.queryName \in DOMAIN saved_queries

TextOnly(w) == ~HasKey(w, "visualization")

\* C21: when a push run has ended that uploaded every saved query and whose
\* saved widgets name saved queries only, it has ended with a status, every
\* widget without a visualization that a saved dashboard had on the server
\* was deleted, and every saved widget without a visualization was created.
C21_TextWidgetsReconciled ==
    EndedPush /\ QueriesUploadedAndNamed =>
        /\ pc # "crashed"
        /\ \A name \in Range(dashOrder) :
              \A w \in Range(PriorWidgets(name)) :
                  TextOnly(w) =>
                      \E d \in DashboardRequests("delete_widget", name) : log[d].id = w.id
        /\ \A p \in AllWidgets :
              TextOnly(WidgetAt(p)) =>
                  \E i \in DashboardRequests("create_widget", p[1]) :
                      /\ log[i].data.options = WidgetAt(p).options
                      /\ log[i].data.text = WidgetAt(p).text

----------------------------------------------------------------------------
(* C22 *)

QueryOps == {"create_query", "update_query"}

VisualizationOps == {"create_visualization", "update_visualization"}

DashboardOps == {"create_dashboard", "update_dashboard"}

WidgetOps == {"delete_widget", "create_widget"}

\* the ids of the visualizations of a query of the server
VizIds(query) == {v.id : v \in Range(query.visualizations)}

\* every request is a create or an update of a saved query, of a
\* visualization, or of a saved dashboard, or the deletion or creation of a
\* widget of a saved dashboard
C22_RequestsForSavedOnly ==
    \A i \in Events :
        log[i].kind = "request" =>
            /\ log[i].op \in QueryOps \cup VisualizationOps \cup DashboardOps \cup WidgetOps
            /\ log[i].op \in QueryOps => log[i].name \in DOMAIN saved_queries
            /\ log[i].op \in DashboardOps \cup WidgetOps
                  => log[i].name \in DOMAIN saved_dashboards

\* a step of a run: the server's queries and dashboards whose names are not
\* saved are after the step as before; no query, visualization or dashboard
\* of the server is gone; a visualization that is sent belongs to a query
\* with a saved name; a widget that is deleted was one of the saved
\* dashboard the request names
C22_FrameStep ==
    pc # "fetched" =>
        /\ Len(srvQueries') >= Len(srvQueries)
        /\ Len(srvDashboards') >= Len(srvDashboards)
        /\ \A k \in 1..Len(srvQueries) :
              /\ srvQueries'[k].id = srvQueries[k].id
              /\ VizIds(srvQueries[k]) \subseteq VizIds(srvQueries'[k])
              /\ srvQueries[k].name \notin DOMAIN saved_queries
                    => srvQueries'[k] = srvQueries[k]
        /\ \A k \in 1..Len(srvDashboards) :
              /\ srvDashboards'[k].id = srvDashboards[k].id
              /\ srvDashboards[k].name \notin DOMAIN saved_dashboards
                    => srvDashboards'[k] = srvDashboards[k]
        /\ \A e \in Sent :
              /\ e.kind = "request" /\ e.op \in VisualizationOps =>
                    \E k \in 1..Len(srvQueries) :
                        /\ srvQueries[k].id = e.data.query_id
                        /\ srvQueries[k].name \in DOMAIN saved_queries
              /\ IsRequest(e, "delete_widget") =>
                    \E n \in RemoteDashboardsNamed(srvDashboards, e.name) :
                        \E w \in Range(srvDashboards[n].widgets) : w.id = e.id

\* C22: push sends no create, update or delete for a query or dashboard of
\* the server whose name is not saved, deletes no widget of a dashboard that
\* is not saved, and deletes nothing but widgets of saved dashboards; what
\* the server holds under names that are not saved stays as it is.
C22_UnsavedUntouched == []C22_RequestsForSavedOnly /\ [][C22_FrameStep]_vars

\* C22 witness: the server has a query and a dashboard with a widget that
\* are not saved; push has run to its end and has deleted and created
\* widgets of a saved dashboard; the dashboard that is not saved still has
\* its widget
C22_Witness ==
    /\ pc \in {"exit0", "exit1"}
    /\ datasource # <<>>
    /\ \E k \in 1..Len(srvQueries) : srvQueries[k].name \notin DOMAIN saved_queries
    /\ \E k \in 1..Len(srvDashboards) :
          /\ srvDashboards[k].name \notin DOMAIN saved_dashboards
          /\ srvDashboards[k].widgets # <<>>
    /\ \E i \in Events, j \in Events :
          IsRequest(log[i], "delete_widget") /\ IsRequest(log[j], "create_widget")

============================================================================
